---- MODULE Spec2Model ----
(***************************************************************************)
(* MelodyPatternRenderer, Score, Vocal and the helpers, in ten parts:      *)
(*                                                                         *)
(*   Spec, FrameSpec  the event-offset cursors of the note and percussion  *)
(*                    streams (apply, resetOffsets, updateNoteOffsets,     *)
(*                    updatePercussionOffsets) and render with the calls   *)
(*                    it makes, over two sets of scores;                   *)
(*   GLSpec           the construction of the renderer (initWebGL,         *)
(*                    initShaderProgram, _initGL) and the resize listener  *)
(*                    with its timeout;                                    *)
(*   ScoreSpec        the Score constructor;                               *)
(*   AngleSpec        _calculateTheta;                                     *)
(*   ViewSpec         _calculateInwardViewOffset and                       *)
(*                    _calculateOutwardViewOffset on their own;            *)
(*   PlaybackSpec     the renderer under a playback clock that advances    *)
(*                    and loops back to 0;                                 *)
(*   VocalSpec        Vocal (apply, togglePlaying, returnToTop) and the    *)
(*                    transport it drives;                                 *)
(*   SynthSpec        the synth pools of the Vocal, the synth of each      *)
(*                    track and the key;                                   *)
(*   SearchSpec       binarySearch, an iteration at a time;                *)
(*   ButtonSpec       initButtonGroup and the clicks on its buttons.       *)
(*                                                                         *)
(* Each specification moves the variables of its part and leaves the       *)
(* others at rest.                                                         *)
(*                                                                         *)
(* Times are JavaScript numbers in the source.  In the scores every time   *)
(* is an integer count of 1/560 s, the coarsest unit in which all the time *)
(* constants of the renderer are whole: 0.0625 s = 35, 0.1 s = 56,         *)
(* 0.8 s = 448, and 3.0 s * 6 / 7 = 1440.  The times of the event loop are *)
(* in ms.  Cursors are 0-based as in the source; event k of an array is    *)
(* element k + 1 of the sequence.                                          *)
(***************************************************************************)
EXTENDS Integers, Sequences, FiniteSets, TLC

VARIABLES
    score,                 \* this._score
    noteOffsets,           \* this._noteOffsets
    lastNoteTime,          \* this._lastNoteTime
    percussionOffsets,     \* this._percussionOffsets
    lastPercussionTime,    \* this._lastPercussionTime
    noteDirection,         \* this.noteDirection
    noteMagnification,     \* this.noteMagnification
    lastCall,              \* history: the arguments of the latest refresh since the last reset
    fresh,                 \* history: a freshly constructed index fed the calls since the latest clock regression
    frame,                 \* history: the operations of the latest render call since the last reset, and its direction
    \* The construction of a renderer on a canvas and its resize listener
    browser,               \* what the canvas and the GL implementation grant: context, compiles, link
    renderer,              \* the outcome of `new MelodyPatternRenderer(vocal, canvas)`
    glState,               \* this._gl, the GL objects made on the way, the listener
    now,                   \* the time of the event loop, in ms
    resizeTimerId,         \* this.resizeTimerId
    timers,                \* the timeouts set and neither run nor cleared
    nextTimerId,           \* the id the next setTimeout returns
    lastResize,            \* history: the time of the latest resize event, -1 before the first
    resizedAt,             \* history: the time of the latest resizeCanvas call
    callsSinceResize,      \* history: the resizeCanvas calls since the latest resize event
    \* The construction of a score
    midi,                  \* the tracks of the Midi given to `new Score(name, midi)`
    built,                 \* the Score constructed from it, once it is
    \* The angle of a pitch
    circleNumerator,       \* this.circleNumerator
    circleDenominator,     \* this.circleDenominator
    key,                   \* this._vocal.key, in semitones
    theta,                 \* the latest result of _calculateTheta, with what it was computed from
    \* The view offset of an event
    view,                  \* the latest result of a _calculate...ViewOffset, with its arguments
    \* The playback clock under the renderer
    playback,              \* Tone.Transport.seconds as render reads it, with its history
    \* Vocal and the transport
    transport,             \* Tone.Transport: its state, its position in 1/560 s, its latest loop-back
    timeline,              \* the events scheduled on the transport, in the order scheduled
    parts,                 \* every Tone.Part made so far, in the order made
    vocalTracks,           \* this._tracks
    pending,               \* the calls waiting at `await Tone.start()`, in the order made
    applied,               \* history: the score of the latest apply that has completed
    applies,               \* history: the number of apply calls made
    lastDone,              \* history: the latest call completed, and the transport state before it
    toggles,               \* history: two togglePlaying calls that waited together, and the state before them
    \* The synths of the Vocal
    noteSynths,            \* this._noteSynths: the detune of each synth, in cents
    percussionSynths,      \* this._percussionSynths: the detune of each synth, in cents
    activeNoteSynthCount,        \* this._activeNoteSynthCount
    activePercussionSynthCount,  \* this._activePercussionSynthCount
    trackSynths,           \* this._tracks: the synth of each entry
    synthPending,          \* the apply calls waiting at `await Tone.start()`, in the order made
    synthHistory,          \* history: the apply calls made, the score applied last, the most tracks of each
                           \* kind applied, whether the latest apply took a synth set under another key
    \* A call of binarySearch
    search,                \* its arguments, le and gt, and whether it has returned
    \* A button group
    groupValue,            \* element.dataset.value
    buttons,               \* element.children: the data value, the 'selected' class, a child element or none
    listener,              \* the calls of the listener: how many, and the argument of the latest
    buttonHistory          \* history: initButtonGroup called, the clicks, the button clicked last and whether
                           \* at an element inside it, the data value the group had in the document

vars == <<score, noteOffsets, lastNoteTime, percussionOffsets, lastPercussionTime,
          noteDirection, noteMagnification, lastCall, fresh, frame>>

glVars == <<browser, renderer, glState, now, resizeTimerId, timers, nextTimerId,
            lastResize, resizedAt, callsSinceResize>>

scoreVars == <<midi, built>>

angleVars == <<circleNumerator, circleDenominator, key, theta>>

viewVars == <<view>>

playbackVars == <<playback>>

vocalVars == <<transport, timeline, parts, vocalTracks, pending, applied, applies, lastDone,
               toggles>>

synthVars == <<noteSynths, percussionSynths, activeNoteSynthCount,
               activePercussionSynthCount, trackSynths, synthPending, synthHistory>>

searchVars == <<search>>

buttonVars == <<groupValue, buttons, listener, buttonHistory>>

---------------------------------------------------------------------------
(* Bounds of the model *)

MaxNotes == 3
MaxPercussions == 1
MaxClock == 6
MaxFrameNotes == 2
MaxFramePercussions == 2
MaxTime == 8
MaxTimers == 3
MaxTracks == 2
MaxTrackNotes == 2
MaxKey == 1
MaxOctaves == 1
MaxViewTime == 2
MaxVocalTracks == 2
MaxApplies == 2
MaxPending == 2
MaxVocalTime == 5
MaxSynthTracks == 2
MaxSynthApplies == 3
MaxSynthPending == 1
MaxSearchLen == 4
MaxSearchKey == 2
MaxButtons == 2
MaxClicks == 2

(* Program constants, in units of 1/560 s *)

percussionAppearingTime == -448
percussionReleasingTime == 35
PercussionDuration == 56

\* Vocal.apply: Math.max(1.0, score.duration)
OneSecond == 560

(* Program constants, in ms *)

resizeDelay == 50

\* this.resizeTimerId = null
NullTimer == 0

Max(a, b) == IF a >= b THEN a ELSE b

---------------------------------------------------------------------------
(* The parts of the model, each at rest while another is examined *)

\* No renderer under construction.
NoGL ==
    [gl |-> FALSE, vShader |-> "none", fShader |-> "none", program |-> "none",
     listening |-> FALSE]

GLAtRest ==
    /\ browser = [context |-> TRUE, vertex |-> TRUE, fragment |-> TRUE, link |-> TRUE]
    /\ renderer = "none"
    /\ glState = NoGL
    /\ now = 0
    /\ resizeTimerId = NullTimer
    /\ timers = {}
    /\ nextTimerId = 1
    /\ lastResize = -1
    /\ resizedAt = -1
    /\ callsSinceResize = 0

\* No score under construction.
NotBuilt == [constructed |-> FALSE]

ScoreAtRest ==
    /\ midi = <<>>
    /\ built = NotBuilt

\* No angle calculated.
NoTheta == [calculated |-> FALSE]

\* The circle and the key as the constructors set them.
AngleAtRest ==
    /\ circleNumerator = 7
    /\ circleDenominator = 12
    /\ key = 0
    /\ theta = NoTheta

\* No view offset calculated.
NoView == [calculated |-> FALSE]

ViewAtRest == view = NoView

\* The playback clock at 0 s, no loop-back yet.
ClockAtTop == [seconds |-> 0, looped |-> FALSE, unseen |-> FALSE]

PlaybackAtRest == playback = ClockAtTop

\* No score applied to the Vocal.
NoVocalScore == [null |-> TRUE]

\* No call completed.
NoOp == [op |-> "none", state |-> "stopped"]

\* No two togglePlaying calls have waited together.
NoPair == [phase |-> "none", origin |-> "stopped"]

\* Tone.Transport before it is touched, and the Vocal as its constructor
\* leaves it.
VocalAtRest ==
    /\ transport = [state |-> "stopped", seconds |-> 0, lastLoop |-> -1]
    /\ timeline = <<>>
    /\ parts = <<>>
    /\ vocalTracks = <<>>
    /\ pending = <<>>
    /\ applied = NoVocalScore
    /\ applies = 0
    /\ lastDone = NoOp
    /\ toggles = NoPair

\* No apply call made on the Vocal.
NoSynthHistory ==
    [applies |-> 0, applied |-> <<>>, mostNotes |-> 0, mostPercussions |-> 0,
     reusedStale |-> FALSE]

\* The synth pools of the Vocal as its constructor leaves them.
SynthAtRest ==
    /\ noteSynths = <<>>
    /\ percussionSynths = <<>>
    /\ activeNoteSynthCount = 0
    /\ activePercussionSynthCount = 0
    /\ trackSynths = <<>>
    /\ synthPending = <<>>
    /\ synthHistory = NoSynthHistory

\* No call of binarySearch.
NoSearch == [pc |-> "idle"]

SearchAtRest == search = NoSearch

\* The JavaScript value undefined, and a string.
Undefined == [type |-> "undefined", text |-> ""]

Str(text) == [type |-> "string", text |-> text]

\* No button group: an element without children or data value, no listener
\* called.
NoListenerCall == [calls |-> 0, latest |-> Undefined]

NoButtonHistory ==
    [initialised |-> FALSE, clicks |-> 0, clicked |-> 0, atInner |-> FALSE,
     original |-> Undefined]

ButtonAtRest ==
    /\ groupValue = Undefined
    /\ buttons = <<>>
    /\ listener = NoListenerCall
    /\ buttonHistory = NoButtonHistory

---------------------------------------------------------------------------
(* Scores *)

\* The playback clock is sampled every half second.
ClockTimes == {280 * k : k \in 0 .. MaxClock}

\* The notes of the example score: 1 s at 0 s, then 0.5 s and 2 s at 1 s.
NoteEvents ==
    {[time |-> 0, duration |-> 560],
     [time |-> 560, duration |-> 280],
     [time |-> 560, duration |-> 1120]}
\* Percussion hits placed so that a hit is released (245 + 35) or attacked (280)
\* exactly on a sampled clock time.
PercussionTimes == {245, 280}

PercussionEvents == [time : PercussionTimes, duration : {PercussionDuration}]

\* The comparator both arrays are sorted with.
CompareEvents(a, b) ==
    IF a.time = b.time THEN b.duration - a.duration ELSE a.time - b.time

IsSorted(events) ==
    \A i, j \in 1 .. Len(events) : i < j => CompareEvents(events[i], events[j]) <= 0

SortedArrays(eventSet, maxLen) ==
    {events \in UNION {[1 .. n -> eventSet] : n \in 0 .. maxLen} : IsSorted(events)}

\* The header of a score, as far as render uses it: the length of one measure
\* (constant tempo, one time signature), here two seconds.
MeasureTimes == {1120}

Scores ==
    [notes : SortedArrays(NoteEvents, MaxNotes),
     percussions : SortedArrays(PercussionEvents, MaxPercussions),
     measureTime : MeasureTimes]

\* The scores whose frames are examined: a 0.5 s and a 1.5 s note at 2 s and a
\* 0.5 s note at 3 s; hits shortly before and at 2.25 s, and a hit at 3 s; measures
\* of 2 s and of 0.4 s.  The clock is sampled at 0 s, 2 s, 2.25 s and 3 s.
FrameNoteEvents ==
    {[time |-> 1120, duration |-> 280],
     [time |-> 1120, duration |-> 840],
     [time |-> 1680, duration |-> 280]}

FramePercussionTimes == {1240, 1260, 1680}

FramePercussionEvents == [time : FramePercussionTimes, duration : {PercussionDuration}]

FrameMeasureTimes == {1120, 224}

\* The sorted arrays in which no event occurs twice.
DistinctSortedArrays(eventSet, maxLen) ==
    {events \in SortedArrays(eventSet, maxLen) :
        \A i, j \in 1 .. Len(events) : i < j => events[i] # events[j]}

FrameScores ==
    [notes : DistinctSortedArrays(FrameNoteEvents, MaxFrameNotes),
     percussions : DistinctSortedArrays(FramePercussionEvents, MaxFramePercussions),
     measureTime : FrameMeasureTimes]

FrameClockTimes == {0, 1120, 1260, 1680}

NoScore == [null |-> TRUE]

Directions == {"inward", "outward"}
Magnifications == {100, 300}

---------------------------------------------------------------------------
(* The cursor scans *)

InitialOffsets == [released |-> 0, attacked |-> 0, appeared |-> 0]

\* resetNoteOffsets / resetPercussionOffsets: the cursors after a reset.
ClearedOffsets(offsets) ==
    [released |-> 0, attacked |-> 0, appeared |-> 0]

\* Variant: a break test that also stops on a tie.
BeforeOrAt(currentTime, limit) == currentTime <= limit

\* The test on which each scan loop breaks.
Before(currentTime, limit) == currentTime < limit

\* Variant: a refresh that never takes the clock to have regressed.
RegressedNever(currentTime, lastTime) == FALSE

\* The test for a clock regression.
Regressed(currentTime, lastTime) == currentTime < lastTime

\* Variant: the scan with the cursor stepped before the test instead of after it.
RECURSIVE ScanForwardStepFirst(_, _, _)
ScanForwardStepFirst(limits, offset, currentTime) ==
    IF offset < Len(limits)
    THEN IF offset + 1 < Len(limits) /\ ~Before(currentTime, limits[offset + 2])
         THEN ScanForwardStepFirst(limits, offset + 1, currentTime)
         ELSE offset + 1
    ELSE offset

\* for (; offset < length; ++offset) { if (currentTime < limit of events[offset]) break; }
RECURSIVE ScanForward(_, _, _)
ScanForward(limits, offset, currentTime) ==
    IF offset < Len(limits)
    THEN IF Before(currentTime, limits[offset + 1])
         THEN offset
         ELSE ScanForward(limits, offset + 1, currentTime)
    ELSE offset

\* Variant: a note counted as released from its start.
NoteReleaseLimitNoDuration(event) == event.time

\* The time up to which a note is not yet released.
NoteReleaseLimit(event) == event.time + event.duration

\* Variant: an event counted as attacked only at its end.
AttackLimitWithDuration(event) == event.time + event.duration

\* The time up to which an event is not yet attacked.
AttackLimit(event) == event.time

\* The time up to which an event has not yet appeared.
AppearLimit(event, appearingTime) == event.time + appearingTime

\* Variant: a percussion hit released after its own duration.
PercussionReleaseLimitByDuration(event, releasingTime) == event.time + event.duration

\* The time up to which a percussion hit is not yet released.
PercussionReleaseLimit(event, releasingTime) == event.time + releasingTime

\* offsets.attacked = Math.max(offsets.attacked, offsets.released)
AttackedStart(offsets, released) == Max(offsets.attacked, released)

\* Variant: the appeared scan restarted at the attacked cursor.
AppearedStartAtAttacked(offsets, attacked) == attacked

\* offsets.appeared = Math.max(offsets.appeared, offsets.attacked)
AppearedStart(offsets, attacked) == Max(offsets.appeared, attacked)

\* Variant: a note refresh that keeps its cursors when the clock has regressed.
UpdateNoteOffsetsKeepingCursors(offsets, lastTime, events, currentTime, appearingTime) ==
    LET released == ScanForward([i \in 1 .. Len(events) |-> NoteReleaseLimit(events[i])],
                                offsets.released, currentTime)
        attacked == ScanForward([i \in 1 .. Len(events) |-> AttackLimit(events[i])],
                                AttackedStart(offsets, released), currentTime)
        appeared == ScanForward([i \in 1 .. Len(events) |->
                                     AppearLimit(events[i], appearingTime)],
                                AppearedStart(offsets, attacked), currentTime)
    IN  [offsets |-> [released |-> released, attacked |-> attacked, appeared |-> appeared],
         lastTime |-> currentTime]

\* updateNoteOffsets: the cursors and the last observed time after the call.
UpdateNoteOffsets(offsets, lastTime, events, currentTime, appearingTime) ==
    LET start == IF Regressed(currentTime, lastTime) THEN ClearedOffsets(offsets) ELSE offsets
        released == ScanForward([i \in 1 .. Len(events) |-> NoteReleaseLimit(events[i])],
                                start.released, currentTime)
        attacked == ScanForward([i \in 1 .. Len(events) |-> AttackLimit(events[i])],
                                AttackedStart(start, released), currentTime)
        appeared == ScanForward([i \in 1 .. Len(events) |->
                                     AppearLimit(events[i], appearingTime)],
                                AppearedStart(start, attacked), currentTime)
    IN  [offsets |-> [released |-> released, attacked |-> attacked, appeared |-> appeared],
         lastTime |-> currentTime]

\* updatePercussionOffsets: the cursors and the last observed time after the call.
UpdatePercussionOffsets(offsets, lastTime, events, currentTime, appearingTime) ==
    LET releasingTime == percussionReleasingTime
        start == IF Regressed(currentTime, lastTime) THEN ClearedOffsets(offsets) ELSE offsets
        released == ScanForward([i \in 1 .. Len(events) |->
                                     PercussionReleaseLimit(events[i], releasingTime)],
                                start.released, currentTime)
        attacked == ScanForward([i \in 1 .. Len(events) |-> AttackLimit(events[i])],
                                AttackedStart(start, released), currentTime)
        appeared == ScanForward([i \in 1 .. Len(events) |->
                                     AppearLimit(events[i], appearingTime)],
                                AppearedStart(start, attacked), currentTime)
    IN  [offsets |-> [released |-> released, attacked |-> attacked, appeared |-> appeared],
         lastTime |-> currentTime]

\* render: circleTime = 3.0 / max(0.01, noteMagnification / 100), in units of 1/560 s.
CircleTime(magnification) == (3 * 560 * 100) \div Max(1, magnification)

\* render: noteAppearingTime for the direction mode.
NoteAppearingTime(direction, magnification) ==
    IF direction = "inward"
    THEN -((CircleTime(magnification) * 6) \div 7)
    ELSE -(CircleTime(magnification) \div 2)

---------------------------------------------------------------------------
(* The frame: the operations of one render call, in the order they are made *)

Operation(op, stream, style, index, at) ==
    [op |-> op, stream |-> stream, style |-> style, index |-> index, at |-> at]

ReadClock == Operation("clock", "none", "none", 0, 0)
Refresh(stream) == Operation("refresh", stream, "none", 0, 0)
Clear == Operation("clear", "none", "none", 0, 0)
\* A drawArrays call for event `index` of a stream, in the colour of `style`.
Draw(stream, style, index, at) == Operation("draw", stream, style, index, at)

\* The view offset of an event: _calculateInwardViewOffset and
\* _calculateOutwardViewOffset.  The offsets are in units of 1/1120 s, twice as
\* fine as the times, so that 0.5 * duration is whole.

\* Variant: the inward offset without the half duration.
CalculateInwardViewOffsetFromStart(currentTime, time, duration) ==
    2 * (time - currentTime)

\* (time - currentTime) + 0.5 * duration
CalculateInwardViewOffset(currentTime, time, duration) ==
    2 * (time - currentTime) + duration

\* Variant: the outward offset without the negation.
CalculateOutwardViewOffsetNotNegated(currentTime, appearingTime, time, duration) ==
    2 * (time + appearingTime - currentTime) + duration

\* -((time + appearingTime - currentTime) + 0.5 * duration)
CalculateOutwardViewOffset(currentTime, appearingTime, time, duration) ==
    -(2 * (time + appearingTime - currentTime) + duration)

\* render: calculateViewOffset, bound to currentTime and, outward, to
\* noteAppearingTime by the switch on the direction.
CalculateViewOffset(direction, currentTime, appearingTime, time, duration) ==
    IF direction = "inward"
    THEN CalculateInwardViewOffset(currentTime, time, duration)
    ELSE CalculateOutwardViewOffset(currentTime, appearingTime, time, duration)

\* Variant: a note loop that draws every note of its slice.
NoteVisibleAlways(currentTime, note) == TRUE

\* render: `offset < note.duration`, the guard of a note's draw.
NoteVisible(currentTime, note) == currentTime - note.time < note.duration

\* render: `currentMeasures - percussion.measures < percussionReleasingTime`, the
\* guard of a percussion draw: a difference of measures against a number of
\* seconds (0.0625 = percussionReleasingTime / 560).
PercussionVisible(currentTime, percussion, measureTime) ==
    (currentTime - percussion.time) * 560 < percussionReleasingTime * measureTime

\* render: `measures % 1.0`, the place on the measure bar, as a part of measureTime.
MeasureFraction(time, measureTime) == time % measureTime

\* render: the note loops, from noteIndex up to limit - 1; a note is drawn at
\* its view offset along its angle.
RECURSIVE DrawNotes(_, _, _, _, _, _, _)
DrawNotes(notes, noteIndex, limit, currentTime, style, direction, appearingTime) ==
    IF noteIndex < limit
    THEN (IF NoteVisible(currentTime, notes[noteIndex + 1])
          THEN <<Draw("notes", style, noteIndex,
                      CalculateViewOffset(direction, currentTime, appearingTime,
                                          notes[noteIndex + 1].time,
                                          notes[noteIndex + 1].duration))>>
          ELSE <<>>)
         \o DrawNotes(notes, noteIndex + 1, limit, currentTime, style, direction,
                      appearingTime)
    ELSE <<>>

\* Variant: the percussion loops run upward, from limit to percussionIndex.
RECURSIVE DrawPercussionsForward(_, _, _, _, _, _)
DrawPercussionsForward(percussions, percussionIndex, limit, currentTime, measureTime, style) ==
    IF percussionIndex >= limit
    THEN DrawPercussionsForward(percussions, percussionIndex - 1, limit, currentTime,
                                measureTime, style)
         \o (IF PercussionVisible(currentTime, percussions[percussionIndex + 1], measureTime)
             THEN <<Draw("percussions", style, percussionIndex,
                         MeasureFraction(percussions[percussionIndex + 1].time, measureTime))>>
             ELSE <<>>)
    ELSE <<>>

\* render: the percussion loops, from percussionIndex down to limit.
RECURSIVE DrawPercussions(_, _, _, _, _, _)
DrawPercussions(percussions, percussionIndex, limit, currentTime, measureTime, style) ==
    IF percussionIndex >= limit
    THEN (IF PercussionVisible(currentTime, percussions[percussionIndex + 1], measureTime)
          THEN <<Draw("percussions", style, percussionIndex,
                      MeasureFraction(percussions[percussionIndex + 1].time, measureTime))>>
          ELSE <<>>)
         \o DrawPercussions(percussions, percussionIndex - 1, limit, currentTime,
                            measureTime, style)
    ELSE <<>>

\* Variant: a frame without the marker.
DrawMarkerOmitted(currentTime, measureTime) == <<>>

\* render: the marker of the current position on the measure bar.
DrawMarker(currentTime, measureTime) ==
    <<Draw("none", "marker", 0, MeasureFraction(currentTime, measureTime))>>

\* Variant: the sounding notes drawn before the appearing notes.
FrameSoundingFirst(s, notes, percussions, currentTime, direction, appearingTime) ==
    <<ReadClock, Refresh("notes"), Refresh("percussions"), Clear>>
    \o DrawNotes(s.notes, notes.released, notes.attacked, currentTime, "sounding",
                 direction, appearingTime)
    \o DrawNotes(s.notes, notes.attacked, notes.appeared, currentTime, "appearing",
                 direction, appearingTime)
    \o DrawMarker(currentTime, s.measureTime)
    \o DrawPercussions(s.percussions, percussions.appeared - 1, percussions.attacked,
                       currentTime, s.measureTime, "appearing")
    \o DrawPercussions(s.percussions, percussions.attacked - 1, percussions.released,
                       currentTime, s.measureTime, "sounding")

\* Variant: the sounding notes loop run up to the appeared cursor.
FrameSoundingToAppeared(s, notes, percussions, currentTime, direction, appearingTime) ==
    <<ReadClock, Refresh("notes"), Refresh("percussions"), Clear>>
    \o DrawNotes(s.notes, notes.attacked, notes.appeared, currentTime, "appearing",
                 direction, appearingTime)
    \o DrawNotes(s.notes, notes.released, notes.appeared, currentTime, "sounding",
                 direction, appearingTime)
    \o DrawMarker(currentTime, s.measureTime)
    \o DrawPercussions(s.percussions, percussions.appeared - 1, percussions.attacked,
                       currentTime, s.measureTime, "appearing")
    \o DrawPercussions(s.percussions, percussions.attacked - 1, percussions.released,
                       currentTime, s.measureTime, "sounding")

\* render, from the read of the clock to the last draw, with the cursors as the
\* two refreshes left them.
Frame(s, notes, percussions, currentTime, direction, appearingTime) ==
    <<ReadClock, Refresh("notes"), Refresh("percussions"), Clear>>
    \o DrawNotes(s.notes, notes.attacked, notes.appeared, currentTime, "appearing",
                 direction, appearingTime)
    \o DrawNotes(s.notes, notes.released, notes.attacked, currentTime, "sounding",
                 direction, appearingTime)
    \o DrawMarker(currentTime, s.measureTime)
    \o DrawPercussions(s.percussions, percussions.appeared - 1, percussions.attacked,
                       currentTime, s.measureTime, "appearing")
    \o DrawPercussions(s.percussions, percussions.attacked - 1, percussions.released,
                       currentTime, s.measureTime, "sounding")

---------------------------------------------------------------------------
(* History variables *)

NoFrame == [called |-> FALSE, ops |-> <<>>]

NoCall == [made |-> FALSE, currentTime |-> 0, noteAppearingTime |-> 0]

NotTracking ==
    [tracking |-> FALSE,
     noteOffsets |-> InitialOffsets, lastNoteTime |-> 0,
     percussionOffsets |-> InitialOffsets, lastPercussionTime |-> 0]

\* The fresh index after a refresh: restarted from the constructor's state when
\* the clock regressed, fed the call when it is tracking.
FreshAfter(currentTime, noteAppearingTime) ==
    LET restart == currentTime < lastNoteTime \/ currentTime < lastPercussionTime
        from == IF restart THEN NotTracking ELSE fresh
        note == UpdateNoteOffsets(from.noteOffsets, from.lastNoteTime, score.notes,
                                  currentTime, noteAppearingTime)
        percussion == UpdatePercussionOffsets(from.percussionOffsets, from.lastPercussionTime,
                                              score.percussions, currentTime,
                                              percussionAppearingTime)
    IN  IF restart \/ fresh.tracking
        THEN [tracking |-> TRUE,
              noteOffsets |-> note.offsets, lastNoteTime |-> note.lastTime,
              percussionOffsets |-> percussion.offsets,
              lastPercussionTime |-> percussion.lastTime]
        ELSE fresh

---------------------------------------------------------------------------
(* The renderer *)

\* The renderer as the constructor leaves it.
RendererInit ==
    /\ score = NoScore
    /\ noteOffsets = InitialOffsets
    /\ lastNoteTime = 0
    /\ percussionOffsets = InitialOffsets
    /\ lastPercussionTime = 0
    /\ noteDirection = "inward"
    /\ noteMagnification = 100
    /\ lastCall = NoCall
    /\ fresh = NotTracking
    /\ frame = NoFrame

Init == RendererInit /\ GLAtRest /\ ScoreAtRest /\ AngleAtRest /\ ViewAtRest /\ PlaybackAtRest
        /\ VocalAtRest
        /\ ButtonAtRest
        /\ SearchAtRest
        /\ SynthAtRest

\* Variant: a reset of the cursors that leaves the last observed times.
ResetBothKeepTimes ==
    /\ noteOffsets' = ClearedOffsets(noteOffsets)
    /\ percussionOffsets' = ClearedOffsets(percussionOffsets)
    /\ lastCall' = NoCall
    /\ fresh' = NotTracking
    /\ frame' = NoFrame
    /\ UNCHANGED <<lastNoteTime, lastPercussionTime>>

\* resetOffsets: resetNoteOffsets, then resetPercussionOffsets.
ResetBoth ==
    /\ noteOffsets' = ClearedOffsets(noteOffsets)
    /\ lastNoteTime' = 0
    /\ percussionOffsets' = ClearedOffsets(percussionOffsets)
    /\ lastPercussionTime' = 0
    /\ lastCall' = NoCall
    /\ fresh' = NotTracking
    /\ frame' = NoFrame

ResetOffsets ==
    /\ ResetBoth
    /\ UNCHANGED <<score, noteDirection, noteMagnification>>

\* Variant: apply that installs the score and leaves the cursors.
ApplyWithoutReset(newScore) ==
    /\ score' = newScore
    /\ UNCHANGED <<noteOffsets, lastNoteTime, percussionOffsets, lastPercussionTime,
                   noteDirection, noteMagnification, lastCall, fresh, frame>>

\* apply(score)
Apply(newScore) ==
    /\ score' = newScore
    /\ ResetBoth
    /\ UNCHANGED <<noteDirection, noteMagnification>>

\* The configuration surface: the direction mode and the magnification.
SetNoteDirection(direction) ==
    /\ noteDirection' = direction
    /\ UNCHANGED <<score, noteOffsets, lastNoteTime, percussionOffsets, lastPercussionTime,
                   noteMagnification, lastCall, fresh, frame>>

SetNoteMagnification(magnification) ==
    /\ noteMagnification' = magnification
    /\ UNCHANGED <<score, noteOffsets, lastNoteTime, percussionOffsets, lastPercussionTime,
                   noteDirection, lastCall, fresh, frame>>

\* Variant: a render that reads the clock before it looks for the score.
RenderNothingAfterClock ==
    /\ frame' = [called |-> TRUE, ops |-> <<ReadClock>>]
    /\ UNCHANGED <<score, noteOffsets, lastNoteTime, percussionOffsets,
                   lastPercussionTime, noteDirection, noteMagnification,
                   lastCall, fresh>>

\* render: `if (this._score == null) return;`
RenderNothing ==
    /\ frame' = [called |-> TRUE, ops |-> <<>>]
    /\ UNCHANGED <<score, noteOffsets, lastNoteTime, percussionOffsets,
                   lastPercussionTime, noteDirection, noteMagnification,
                   lastCall, fresh>>

\* Variant: a render that zeroes the duration of the notes it has released.
RenderFrameClearingReleased(currentTime) ==
    LET noteAppearingTime == NoteAppearingTime(noteDirection, noteMagnification)
        note == UpdateNoteOffsets(noteOffsets, lastNoteTime, score.notes,
                                  currentTime, noteAppearingTime)
        percussion == UpdatePercussionOffsets(percussionOffsets, lastPercussionTime,
                                              score.percussions, currentTime,
                                              percussionAppearingTime)
    IN  /\ noteOffsets' = note.offsets
        /\ lastNoteTime' = note.lastTime
        /\ percussionOffsets' = percussion.offsets
        /\ lastPercussionTime' = percussion.lastTime
        /\ lastCall' = [made |-> TRUE, currentTime |-> currentTime,
                        noteAppearingTime |-> noteAppearingTime]
        /\ fresh' = FreshAfter(currentTime, noteAppearingTime)
        /\ frame' = [called |-> TRUE,
                     direction |-> noteDirection,
                     ops |-> Frame(score, note.offsets, percussion.offsets, currentTime,
                                   noteDirection, noteAppearingTime)]
        /\ score' = [score EXCEPT !.notes =
                         [i \in 1 .. Len(score.notes) |->
                             IF i <= note.offsets.released
                             THEN [score.notes[i] EXCEPT !.duration = 0]
                             ELSE score.notes[i]]]
        /\ UNCHANGED <<noteDirection, noteMagnification>>

\* Variant: a render that reads the clock again for the percussion refresh and
\* for the percussion draws.
RenderFrameReadingTwice(currentTime) ==
    \E later \in {t \in FrameClockTimes : t >= currentTime} :
        LET noteAppearingTime == NoteAppearingTime(noteDirection, noteMagnification)
            note == UpdateNoteOffsets(noteOffsets, lastNoteTime, score.notes,
                                      currentTime, noteAppearingTime)
            percussion == UpdatePercussionOffsets(percussionOffsets, lastPercussionTime,
                                                  score.percussions, later,
                                                  percussionAppearingTime)
        IN  /\ noteOffsets' = note.offsets
            /\ lastNoteTime' = note.lastTime
            /\ percussionOffsets' = percussion.offsets
            /\ lastPercussionTime' = percussion.lastTime
            /\ lastCall' = [made |-> TRUE, currentTime |-> currentTime,
                            noteAppearingTime |-> noteAppearingTime]
            /\ fresh' = FreshAfter(currentTime, noteAppearingTime)
            /\ frame' = [called |-> TRUE,
                         direction |-> noteDirection,
                         ops |-> <<ReadClock>>
                                 \o Frame(score, note.offsets, percussion.offsets, later,
                                          noteDirection, noteAppearingTime)]
            /\ UNCHANGED <<score, noteDirection, noteMagnification>>

\* render with a score, with currentTime the value read from the playback clock.
RenderFrame(currentTime) ==
    LET noteAppearingTime == NoteAppearingTime(noteDirection, noteMagnification)
        note == UpdateNoteOffsets(noteOffsets, lastNoteTime, score.notes,
                                  currentTime, noteAppearingTime)
        percussion == UpdatePercussionOffsets(percussionOffsets, lastPercussionTime,
                                              score.percussions, currentTime,
                                              percussionAppearingTime)
    IN  /\ noteOffsets' = note.offsets
        /\ lastNoteTime' = note.lastTime
        /\ percussionOffsets' = percussion.offsets
        /\ lastPercussionTime' = percussion.lastTime
        /\ lastCall' = [made |-> TRUE, currentTime |-> currentTime,
                        noteAppearingTime |-> noteAppearingTime]
        /\ fresh' = FreshAfter(currentTime, noteAppearingTime)
        /\ frame' = [called |-> TRUE,
                     direction |-> noteDirection,
                     ops |-> Frame(score, note.offsets, percussion.offsets, currentTime,
                                   noteDirection, noteAppearingTime)]
        /\ UNCHANGED <<score, noteDirection, noteMagnification>>

\* render()
Render(currentTime) ==
    IF score = NoScore THEN RenderNothing ELSE RenderFrame(currentTime)

Next ==
    \/ \E newScore \in Scores : Apply(newScore) /\ UNCHANGED <<glVars, scoreVars, angleVars, viewVars, playbackVars, vocalVars, synthVars, searchVars, buttonVars>>
    \/ ResetOffsets /\ UNCHANGED <<glVars, scoreVars, angleVars, viewVars, playbackVars, vocalVars, synthVars, searchVars, buttonVars>>
    \/ \E direction \in Directions : SetNoteDirection(direction) /\ UNCHANGED <<glVars, scoreVars, angleVars, viewVars, playbackVars, vocalVars, synthVars, searchVars, buttonVars>>
    \/ \E magnification \in Magnifications :
          SetNoteMagnification(magnification) /\ UNCHANGED <<glVars, scoreVars, angleVars, viewVars, playbackVars, vocalVars, synthVars, searchVars, buttonVars>>
    \/ \E currentTime \in ClockTimes : Render(currentTime) /\ UNCHANGED <<glVars, scoreVars, angleVars, viewVars, playbackVars, vocalVars, synthVars, searchVars, buttonVars>>

Spec == Init /\ [][Next]_vars

\* The same renderer over the scores and clock samples of the frames.
FrameNext ==
    \/ \E newScore \in FrameScores : Apply(newScore) /\ UNCHANGED <<glVars, scoreVars, angleVars, viewVars, playbackVars, vocalVars, synthVars, searchVars, buttonVars>>
    \/ ResetOffsets /\ UNCHANGED <<glVars, scoreVars, angleVars, viewVars, playbackVars, vocalVars, synthVars, searchVars, buttonVars>>
    \/ \E direction \in Directions : SetNoteDirection(direction) /\ UNCHANGED <<glVars, scoreVars, angleVars, viewVars, playbackVars, vocalVars, synthVars, searchVars, buttonVars>>
    \/ \E magnification \in Magnifications :
          SetNoteMagnification(magnification) /\ UNCHANGED <<glVars, scoreVars, angleVars, viewVars, playbackVars, vocalVars, synthVars, searchVars, buttonVars>>
    \/ \E currentTime \in FrameClockTimes : Render(currentTime) /\ UNCHANGED <<glVars, scoreVars, angleVars, viewVars, playbackVars, vocalVars, synthVars, searchVars, buttonVars>>

FrameSpec == Init /\ [][FrameNext]_vars

---------------------------------------------------------------------------
(* The construction of the renderer: initWebGL, initShaderProgram, loadShader *)

\* What a canvas and its GL implementation can grant or refuse.
Browsers == [context : BOOLEAN, vertex : BOOLEAN, fragment : BOOLEAN, link : BOOLEAN]

\* loadShader: the shader object made, deleted again when it does not compile,
\* and whether a shader (and not null) is returned.
LoadShader(compiles) ==
    IF compiles
    THEN [returned |-> TRUE, shader |-> "live"]
    ELSE [returned |-> FALSE, shader |-> "deleted"]

\* Variant: a program returned whatever its link status.
InitShaderProgramUnchecked(b) ==
    LET vShader == LoadShader(b.vertex)
        fShader == LoadShader(b.fragment)
    IN  IF ~vShader.returned
        THEN [returned |-> FALSE, vShader |-> vShader.shader, fShader |-> "none",
              program |-> "none"]
        ELSE IF ~fShader.returned
        THEN [returned |-> FALSE, vShader |-> vShader.shader,
              fShader |-> fShader.shader, program |-> "none"]
        ELSE [returned |-> TRUE, vShader |-> "live", fShader |-> "live",
              program |-> IF b.link THEN "linked" ELSE "unlinked"]

\* initShaderProgram: null after a compile or a link failure.  After a fragment
\* failure deleteShader is given fShader, which is null, so the vertex shader
\* stays; after a link failure both shaders are deleted and the program stays.
InitShaderProgram(b) ==
    LET vShader == LoadShader(b.vertex)
        fShader == LoadShader(b.fragment)
    IN  IF ~vShader.returned
        THEN [returned |-> FALSE, vShader |-> vShader.shader, fShader |-> "none",
              program |-> "none"]
        ELSE IF ~fShader.returned
        THEN [returned |-> FALSE, vShader |-> vShader.shader,
              fShader |-> fShader.shader, program |-> "none"]
        ELSE IF ~b.link
        THEN [returned |-> FALSE, vShader |-> "deleted", fShader |-> "deleted",
              program |-> "unlinked"]
        ELSE [returned |-> TRUE, vShader |-> "live", fShader |-> "live",
              program |-> "linked"]

\* initWebGL: null without a context or without a program.
InitWebGL(b) ==
    IF ~b.context
    THEN [returned |-> FALSE, vShader |-> "none", fShader |-> "none", program |-> "none"]
    ELSE InitShaderProgram(b)

\* new MelodyPatternRenderer(vocal, canvas): the constructor with _initGL, which
\* throws when initWebGL returns null; otherwise it sets this._gl, calls
\* resizeCanvas, sets this.resizeTimerId = null and adds the resize listener.
Construct ==
    /\ renderer = "none"
    /\ LET glinfo == InitWebGL(browser)
       IN  /\ renderer' = IF glinfo.returned THEN "constructed" ELSE "thrown"
           /\ glState' = [gl |-> glinfo.returned,
                          vShader |-> glinfo.vShader,
                          fShader |-> glinfo.fShader,
                          program |-> glinfo.program,
                          listening |-> glinfo.returned]
           /\ callsSinceResize' = IF glinfo.returned THEN 1 ELSE 0
           /\ resizedAt' = IF glinfo.returned THEN now ELSE resizedAt
    /\ resizeTimerId' = NullTimer
    /\ UNCHANGED <<browser, now, timers, nextTimerId, lastResize>>

---------------------------------------------------------------------------
(* The resize listener and its timeout *)

\* The event loop is looked at every 25 ms or 50 ms.
TimeSteps == {25, 50}

\* The last time looked at.
Horizon == 25 * MaxTime

\* Variant: a listener that sets the new timeout without clearing the pending one.
ResizeEventWithoutClear ==
    /\ glState.listening
    /\ nextTimerId <= MaxTimers
    /\ now + resizeDelay <= Horizon
    /\ timers' = timers \cup {[id |-> nextTimerId, due |-> now + resizeDelay]}
    /\ resizeTimerId' = nextTimerId
    /\ nextTimerId' = nextTimerId + 1
    /\ lastResize' = now
    /\ callsSinceResize' = 0
    /\ UNCHANGED <<browser, renderer, glState, now, resizedAt>>

\* The listener of 'resize': clearTimeout of the pending timeout, if any, then
\* setTimeout of the callback, 50 ms.
ResizeEvent ==
    /\ glState.listening
    /\ nextTimerId <= MaxTimers
    /\ now + resizeDelay <= Horizon
    /\ timers' = {t \in timers : resizeTimerId = NullTimer \/ t.id # resizeTimerId}
                    \cup {[id |-> nextTimerId, due |-> now + resizeDelay]}
    /\ resizeTimerId' = nextTimerId
    /\ nextTimerId' = nextTimerId + 1
    /\ lastResize' = now
    /\ callsSinceResize' = 0
    /\ UNCHANGED <<browser, renderer, glState, now, resizedAt>>

\* The callback of a timeout, run by the event loop at or after the time it is
\* due: resizeCanvas(), then this.resizeTimerId = null.
TimerFires ==
    /\ \E t \in timers :
          /\ t.due <= now
          /\ timers' = timers \ {t}
    /\ resizeTimerId' = NullTimer
    /\ resizedAt' = now
    /\ callsSinceResize' = callsSinceResize + 1
    /\ UNCHANGED <<browser, renderer, glState, now, nextTimerId, lastResize>>

\* Time passes.
Tick ==
    /\ \E step \in TimeSteps :
          /\ now + step <= Horizon
          /\ now' = now + step
    /\ UNCHANGED <<browser, renderer, glState, resizeTimerId, timers, nextTimerId,
                   lastResize, resizedAt, callsSinceResize>>

GLInit ==
    /\ RendererInit
    /\ VocalAtRest
    /\ ButtonAtRest
    /\ SearchAtRest
    /\ SynthAtRest
    /\ PlaybackAtRest
    /\ ViewAtRest
    /\ ScoreAtRest
    /\ AngleAtRest
    /\ browser \in Browsers
    /\ renderer = "none"
    /\ glState = NoGL
    /\ now = 0
    /\ resizeTimerId = NullTimer
    /\ timers = {}
    /\ nextTimerId = 1
    /\ lastResize = -1
    /\ resizedAt = -1
    /\ callsSinceResize = 0

GLNext ==
    \/ Construct /\ UNCHANGED <<vars, scoreVars, angleVars, viewVars, playbackVars, vocalVars, synthVars, searchVars, buttonVars>>
    \/ ResizeEvent /\ UNCHANGED <<vars, scoreVars, angleVars, viewVars, playbackVars, vocalVars, synthVars, searchVars, buttonVars>>
    \/ TimerFires /\ UNCHANGED <<vars, scoreVars, angleVars, viewVars, playbackVars, vocalVars, synthVars, searchVars, buttonVars>>
    \/ Tick /\ UNCHANGED <<vars, scoreVars, angleVars, viewVars, playbackVars, vocalVars, synthVars, searchVars, buttonVars>>

\* The event loop runs a due callback, and time does not stop.
GLSpec ==
    /\ GLInit
    /\ [][GLNext]_glVars
    /\ WF_glVars(TimerFires /\ UNCHANGED <<vars, scoreVars, angleVars, viewVars, playbackVars, vocalVars, synthVars, searchVars, buttonVars>>)
    /\ WF_glVars(Tick /\ UNCHANGED <<vars, scoreVars, angleVars, viewVars, playbackVars, vocalVars, synthVars, searchVars, buttonVars>>)

---------------------------------------------------------------------------
(* The Score constructor *)

\* The notes a track of the Midi may hold: 0.5 s and 1 s at 0 s, 0.5 s at 1 s.
MidiNotes ==
    {[time |-> 0, duration |-> 280],
     [time |-> 0, duration |-> 560],
     [time |-> 560, duration |-> 280]}

MidiTracks ==
    [percussion : BOOLEAN,
     notes : UNION {[1 .. n -> MidiNotes] : n \in 0 .. MaxTrackNotes}]

Midis == UNION {[1 .. n -> MidiTracks] : n \in 0 .. MaxTracks}

\* tracks.map: the copy of a track's notes, each with its trackIndex.
CopyNotes(track, trackIndex) ==
    [k \in 1 .. Len(track.notes) |->
        [trackIndex |-> trackIndex,
         time |-> track.notes[k].time,
         duration |-> track.notes[k].duration]]

\* `if (newTrack.instrument.percussion) note.duration = 0.1` on every note.
Normalise(percussion, notes) ==
    [k \in 1 .. Len(notes) |->
        IF percussion THEN [notes[k] EXCEPT !.duration = PercussionDuration]
        ELSE notes[k]]

\* tracks.filter(...).flatMap(track => track.notes)
RECURSIVE NotesOfKind(_, _, _)
NotesOfKind(tracks, first, percussion) ==
    IF first > Len(tracks) THEN <<>>
    ELSE (IF tracks[first].percussion = percussion THEN tracks[first].notes ELSE <<>>)
         \o NotesOfKind(tracks, first + 1, percussion)

\* Array.prototype.sort with the comparator of the constructor; the sort is
\* stable: an event goes behind the events it does not precede.
RECURSIVE InsertEvent(_, _)
InsertEvent(sorted, event) ==
    IF sorted = <<>> THEN <<event>>
    ELSE IF CompareEvents(Head(sorted), event) <= 0
         THEN <<Head(sorted)>> \o InsertEvent(Tail(sorted), event)
         ELSE <<event>> \o sorted

RECURSIVE SortEvents(_)
SortEvents(events) ==
    IF events = <<>> THEN <<>>
    ELSE InsertEvent(SortEvents(SubSeq(events, 1, Len(events) - 1)), events[Len(events)])

\* Variant: a constructor that sorts the copies and then overwrites the
\* durations of the percussion notes.
ScoreOfSortFirst(m) ==
    LET tracks == [i \in 1 .. Len(m) |->
                      [percussion |-> m[i].percussion,
                       notes |-> CopyNotes(m[i], i - 1)]]
        percussions == SortEvents(NotesOfKind(tracks, 1, TRUE))
    IN  [constructed |-> TRUE,
         tracks |-> [i \in 1 .. Len(m) |->
                        [tracks[i] EXCEPT !.notes = Normalise(m[i].percussion, @)]],
         notes |-> SortEvents(NotesOfKind(tracks, 1, FALSE)),
         percussions |-> Normalise(TRUE, percussions)]

\* new Score(name, midi): the tracks copied and normalised, then the notes and
\* the percussions gathered from them and sorted.
ScoreOf(m) ==
    LET tracks == [i \in 1 .. Len(m) |->
                      [percussion |-> m[i].percussion,
                       notes |-> Normalise(m[i].percussion, CopyNotes(m[i], i - 1))]]
    IN  [constructed |-> TRUE,
         tracks |-> tracks,
         notes |-> SortEvents(NotesOfKind(tracks, 1, FALSE)),
         percussions |-> SortEvents(NotesOfKind(tracks, 1, TRUE))]

\* Variant: a constructor that keeps the note objects of the Midi in its
\* tracks, so that the overwritten durations are those of the Midi's notes.
NewScoreSharingNotes ==
    /\ built = NotBuilt
    /\ built' = ScoreOf(midi)
    /\ midi' = [i \in 1 .. Len(midi) |->
                   [midi[i] EXCEPT !.notes = Normalise(midi[i].percussion, @)]]

NewScore ==
    /\ built = NotBuilt
    /\ built' = ScoreOf(midi)
    /\ UNCHANGED midi

ScoreInit ==
    /\ RendererInit
    /\ VocalAtRest
    /\ ButtonAtRest
    /\ SearchAtRest
    /\ SynthAtRest
    /\ PlaybackAtRest
    /\ ViewAtRest
    /\ GLAtRest
    /\ AngleAtRest
    /\ midi \in Midis
    /\ built = NotBuilt

ScoreNext == NewScore /\ UNCHANGED <<vars, glVars, angleVars, viewVars, playbackVars, vocalVars, synthVars, searchVars, buttonVars>>

ScoreSpec == ScoreInit /\ [][ScoreNext]_scoreVars

---------------------------------------------------------------------------
(* The angle of a pitch: _calculateTheta *)

\* The circles of the application: 12, 24, 48, 96 and 192 steps, and the circle
\* of fifths.
Circles ==
    {[numerator |-> 1, denominator |-> 12],
     [numerator |-> 1, denominator |-> 24],
     [numerator |-> 1, denominator |-> 48],
     [numerator |-> 1, denominator |-> 96],
     [numerator |-> 1, denominator |-> 192],
     [numerator |-> 7, denominator |-> 12]}

Keys == -MaxKey .. MaxKey

\* The MIDI pitches within MaxOctaves octaves of pitch 72.
Pitches == (72 - 12 * MaxOctaves) .. (72 + 12 * MaxOctaves)

\* Variant: the angle counted from pitch 60.
ThetaFromMiddleC(pitch, k, numerator, denominator) ==
    [pi |-> 2 * (pitch + k - 60) * numerator, over |-> denominator]

\* 2 * Math.PI * (midi + this._vocal.key - 72) * this.circleNumerator
\* / this.circleDenominator, as the fraction pi / over of the number pi.
Theta(pitch, k, numerator, denominator) ==
    [pi |-> 2 * (pitch + k - 72) * numerator, over |-> denominator]

SetCircle(circle) ==
    /\ circleNumerator' = circle.numerator
    /\ circleDenominator' = circle.denominator
    /\ UNCHANGED <<key, theta>>

SetKey(k) ==
    /\ key' = k
    /\ UNCHANGED <<circleNumerator, circleDenominator, theta>>

CalculateTheta(pitch) ==
    /\ theta' = [calculated |-> TRUE,
                 midi |-> pitch,
                 key |-> key,
                 numerator |-> circleNumerator,
                 denominator |-> circleDenominator,
                 angle |-> Theta(pitch, key, circleNumerator, circleDenominator)]
    /\ UNCHANGED <<circleNumerator, circleDenominator, key>>

AngleInit ==
    /\ RendererInit
    /\ VocalAtRest
    /\ ButtonAtRest
    /\ SearchAtRest
    /\ SynthAtRest
    /\ PlaybackAtRest
    /\ ViewAtRest
    /\ GLAtRest
    /\ ScoreAtRest
    /\ AngleAtRest

AngleNext ==
    \/ \E circle \in Circles : SetCircle(circle) /\ UNCHANGED <<vars, glVars, scoreVars, viewVars, playbackVars, vocalVars, synthVars, searchVars, buttonVars>>
    \/ \E k \in Keys : SetKey(k) /\ UNCHANGED <<vars, glVars, scoreVars, viewVars, playbackVars, vocalVars, synthVars, searchVars, buttonVars>>
    \/ \E pitch \in Pitches : CalculateTheta(pitch) /\ UNCHANGED <<vars, glVars, scoreVars, viewVars, playbackVars, vocalVars, synthVars, searchVars, buttonVars>>

AngleSpec == AngleInit /\ [][AngleNext]_angleVars

---------------------------------------------------------------------------
(* The view offsets on their own, over events and clock times of any kind *)

\* Event times every half second, durations every quarter second from 0, and
\* the clock every eighth of a second, so that every midpoint is a clock time.
ViewTimes == {280 * k : k \in 0 .. MaxViewTime}
ViewDurations == {140 * k : k \in 0 .. MaxViewTime}
ViewClockTimes == {70 * k : k \in 0 .. 6 * MaxViewTime}

\* The leads render computes for the directions and magnifications.
AppearingTimes ==
    {NoteAppearingTime(direction, magnification) :
        direction \in Directions, magnification \in Magnifications}

InwardViewOffset(currentTime, time, duration) ==
    /\ view' = [calculated |-> TRUE,
                direction |-> "inward",
                currentTime |-> currentTime,
                appearingTime |-> 0,
                time |-> time,
                duration |-> duration,
                viewOffset |-> CalculateInwardViewOffset(currentTime, time, duration)]

OutwardViewOffset(currentTime, appearingTime, time, duration) ==
    /\ view' = [calculated |-> TRUE,
                direction |-> "outward",
                currentTime |-> currentTime,
                appearingTime |-> appearingTime,
                time |-> time,
                duration |-> duration,
                viewOffset |-> CalculateOutwardViewOffset(currentTime, appearingTime,
                                                         time, duration)]

ViewInit ==
    /\ RendererInit
    /\ VocalAtRest
    /\ ButtonAtRest
    /\ SearchAtRest
    /\ SynthAtRest
    /\ PlaybackAtRest
    /\ GLAtRest
    /\ ScoreAtRest
    /\ AngleAtRest
    /\ ViewAtRest

ViewNext ==
    \/ \E currentTime \in ViewClockTimes, time \in ViewTimes, duration \in ViewDurations :
          InwardViewOffset(currentTime, time, duration)
              /\ UNCHANGED <<vars, glVars, scoreVars, angleVars, playbackVars, vocalVars, synthVars, searchVars, buttonVars>>
    \/ \E currentTime \in ViewClockTimes, appearingTime \in AppearingTimes,
          time \in ViewTimes, duration \in ViewDurations :
          OutwardViewOffset(currentTime, appearingTime, time, duration)
              /\ UNCHANGED <<vars, glVars, scoreVars, angleVars, playbackVars, vocalVars, synthVars, searchVars, buttonVars>>

ViewSpec == ViewInit /\ [][ViewNext]_viewVars

---------------------------------------------------------------------------
(* Playback: the renderer under a clock that advances and loops back, with   *)
(* the direction and the magnification as they were set before the score was *)
(* applied                                                                   *)

\* The renderer after apply(newScore), with no render made yet.
Applied(newScore, direction, magnification) ==
    /\ score = newScore
    /\ noteOffsets = InitialOffsets
    /\ lastNoteTime = 0
    /\ percussionOffsets = InitialOffsets
    /\ lastPercussionTime = 0
    /\ noteDirection = direction
    /\ noteMagnification = magnification
    /\ lastCall = NoCall
    /\ fresh = NotTracking
    /\ frame = NoFrame

\* The transport runs: Tone.Transport.seconds is later at a later read.
AdvanceClock ==
    /\ \E later \in ClockTimes :
          /\ later > playback.seconds
          /\ playback' = [playback EXCEPT !.seconds = later]
    /\ UNCHANGED vars

\* The loop event of Vocal.apply: Tone.Transport.seconds = 0.
LoopBack ==
    /\ playback.seconds > 0
    /\ playback' = [playback EXCEPT !.seconds = 0, !.looped = TRUE]
    /\ UNCHANGED vars

\* render(), reading this._vocal.currentTime; `unseen` records a loop-back
\* since the render before that this render does not take for a regression.
RenderAtClock ==
    /\ Render(playback.seconds)
    /\ playback' = [playback EXCEPT
                        !.looped = FALSE,
                        !.unseen = playback.looped
                                     /\ ~Regressed(playback.seconds, lastNoteTime)]

PlaybackInit ==
    /\ \E newScore \in Scores, direction \in Directions, magnification \in Magnifications :
          Applied(newScore, direction, magnification)
    /\ GLAtRest
    /\ ScoreAtRest
    /\ AngleAtRest
    /\ ViewAtRest
    /\ PlaybackAtRest
    /\ VocalAtRest
    /\ ButtonAtRest
    /\ SearchAtRest
    /\ SynthAtRest

PlaybackNext ==
    \/ AdvanceClock /\ UNCHANGED <<glVars, scoreVars, angleVars, viewVars, vocalVars, synthVars, searchVars, buttonVars>>
    \/ LoopBack /\ UNCHANGED <<glVars, scoreVars, angleVars, viewVars, vocalVars, synthVars, searchVars, buttonVars>>
    \/ RenderAtClock /\ UNCHANGED <<glVars, scoreVars, angleVars, viewVars, vocalVars, synthVars, searchVars, buttonVars>>

PlaybackSpec == PlaybackInit /\ [][PlaybackNext]_<<vars, playbackVars>>

---------------------------------------------------------------------------
(* Vocal: apply, togglePlaying and returnToTop over Tone.Transport.  Each of *)
(* them waits at `await Tone.start()` and then runs to its end in one step; *)
(* the calls that wait resume in the order they were made.                  *)

\* The track lists of the scores: n tracks, the first melodic, the others
\* percussion.
VocalTrackLists == {[k \in 1 .. n |-> k > 1] : n \in 0 .. MaxVocalTracks}

\* score.duration: a score of 0.5 s and one of 2 s.
VocalDurations == {280, 1120}

\* A score as Vocal.apply reads it: for each track whether its instrument is
\* percussion, and the duration.
VocalScores == [tracks : VocalTrackLists, duration : VocalDurations]

\* The transport is looked at every half second.
VocalStep == 280

\* The last transport time looked at.
VocalHorizon == VocalStep * MaxVocalTime

\* Tone.Transport.stop(): stopped, at position 0.
Stop(t) == [t EXCEPT !.state = "stopped", !.seconds = 0]

\* Tone.Transport.pause(): paused, at the position reached.
Pause(t) == [t EXCEPT !.state = "paused"]

\* Tone.Transport.start(): started, from the position it is at.
Start(t) == [t EXCEPT !.state = "started"]

\* Variant: Tone.Transport.cancel() left out.
CancelEventsOmitted(scheduled) == scheduled

\* Tone.Transport.cancel(): no event stays scheduled.
CancelEvents(scheduled) == <<>>

\* new Tone.Part(...), part.start(0)
NewPart == [started |-> TRUE, stopped |-> FALSE, cancelled |-> FALSE, disposed |-> FALSE]

\* part.stop(); part.cancel(); part.dispose()
DisposePart(part) ==
    [part EXCEPT !.stopped = TRUE, !.cancelled = TRUE, !.disposed = TRUE]

\* Variant: the loop event scheduled at the duration of the score.
LoopTimeOfDuration(s) == s.duration

\* const duration = Math.max(1.0, score.duration)
LoopTime(s) == Max(OneSecond, s.duration)

\* get playing
Playing(t) == t.state = "started"

\* The calls that can wait at the await.
Calls ==
    [op : {"apply"}, score : VocalScores]
        \cup [op : {"togglePlaying", "returnToTop"}, score : {NoVocalScore}]

\* apply(score), togglePlaying() and returnToTop() up to `await Tone.start()`.
CallApply(newScore) ==
    /\ Len(pending) < MaxPending
    /\ applies < MaxApplies
    /\ pending' = Append(pending, [op |-> "apply", score |-> newScore])
    /\ applies' = applies + 1
    /\ UNCHANGED <<transport, timeline, parts, vocalTracks, applied, lastDone, toggles>>

CallTogglePlaying ==
    /\ Len(pending) < MaxPending
    /\ pending' = Append(pending, [op |-> "togglePlaying", score |-> NoVocalScore])
    /\ UNCHANGED <<transport, timeline, parts, vocalTracks, applied, applies, lastDone,
                   toggles>>

CallReturnToTop ==
    /\ Len(pending) < MaxPending
    /\ pending' = Append(pending, [op |-> "returnToTop", score |-> NoVocalScore])
    /\ UNCHANGED <<transport, timeline, parts, vocalTracks, applied, applies, lastDone,
                   toggles>>

\* apply(score) after the await: the transport stopped and its events
\* cancelled, the parts of this._tracks stopped, cancelled and disposed, a part
\* made and started for each track of the score, the loop event scheduled.
VocalApply(newScore) ==
    /\ transport' = [Stop(transport) EXCEPT !.lastLoop = -1]
    /\ timeline' = Append(CancelEvents(timeline), [time |-> LoopTime(newScore)])
    /\ parts' = [i \in 1 .. Len(parts) |->
                    IF \E k \in 1 .. Len(vocalTracks) : vocalTracks[k].part = i
                    THEN DisposePart(parts[i])
                    ELSE parts[i]]
                \o [k \in 1 .. Len(newScore.tracks) |-> NewPart]
    /\ vocalTracks' = [k \in 1 .. Len(newScore.tracks) |->
                     [percussion |-> newScore.tracks[k], part |-> Len(parts) + k]]
    /\ applied' = newScore

\* Variant: togglePlaying that reads `playing` before the await, so that the
\* second of two calls that waited together acts on the state the first saw.
TogglePlayingReadBeforeAwait ==
    /\ transport' = IF toggles.phase = "first"
                    THEN IF toggles.origin = "started"
                         THEN Pause(transport) ELSE Start(transport)
                    ELSE IF Playing(transport)
                         THEN Pause(transport) ELSE Start(transport)
    /\ UNCHANGED <<timeline, parts, vocalTracks, applied>>

\* togglePlaying() after the await
TogglePlaying ==
    /\ transport' = IF Playing(transport) THEN Pause(transport) ELSE Start(transport)
    /\ UNCHANGED <<timeline, parts, vocalTracks, applied>>

\* Variant: returnToTop that starts the transport whatever its state was.
ReturnedToTopStarted(t) == Start(Stop(t))

\* returnToTop() after the await: the transport after stop(), and start() if it
\* was playing.
ReturnedToTop(t) == IF Playing(t) THEN Start(Stop(t)) ELSE Stop(t)

ReturnToTop ==
    /\ transport' = ReturnedToTop(transport)
    /\ UNCHANGED <<timeline, parts, vocalTracks, applied>>

\* Tone.start() has resolved for the call that has waited longest.
Resume ==
    /\ pending # <<>>
    /\ LET call == Head(pending)
       IN  /\ CASE call.op = "apply" -> VocalApply(call.score)
                [] call.op = "togglePlaying" -> TogglePlaying
                [] call.op = "returnToTop" -> ReturnToTop
           /\ lastDone' = [op |-> call.op, state |-> transport.state]
           /\ toggles' =
                  IF call.op = "togglePlaying" /\ toggles.phase = "first"
                  THEN [toggles EXCEPT !.phase = "second"]
                  ELSE IF /\ call.op = "togglePlaying"
                          /\ Len(pending) >= 2
                          /\ pending[2].op = "togglePlaying"
                       THEN [phase |-> "first", origin |-> transport.state]
                       ELSE NoPair
    /\ pending' = Tail(pending)
    /\ UNCHANGED applies

\* The started transport moves on by a step and invokes the callbacks of the
\* events scheduled in that step; the callback of the loop event sets
\* Tone.Transport.seconds = 0.
TransportTick ==
    /\ transport.state = "started"
    /\ transport.seconds + VocalStep <= VocalHorizon
    /\ LET reached == transport.seconds + VocalStep
           due == {k \in 1 .. Len(timeline) :
                      transport.seconds < timeline[k].time /\ timeline[k].time <= reached}
       IN  transport' =
               IF due = {}
               THEN [transport EXCEPT !.seconds = reached]
               ELSE [transport EXCEPT
                        !.seconds = 0,
                        !.lastLoop = timeline[CHOOSE k \in due : TRUE].time]
    /\ UNCHANGED <<timeline, parts, vocalTracks, pending, applied, applies, lastDone,
                   toggles>>

VocalInit ==
    /\ RendererInit
    /\ GLAtRest
    /\ ScoreAtRest
    /\ AngleAtRest
    /\ ViewAtRest
    /\ PlaybackAtRest
    /\ VocalAtRest
    /\ ButtonAtRest
    /\ SearchAtRest
    /\ SynthAtRest

VocalNext ==
    \/ \E newScore \in VocalScores :
          CallApply(newScore)
              /\ UNCHANGED <<vars, glVars, scoreVars, angleVars, viewVars, playbackVars, synthVars, searchVars, buttonVars>>
    \/ CallTogglePlaying
          /\ UNCHANGED <<vars, glVars, scoreVars, angleVars, viewVars, playbackVars, synthVars, searchVars, buttonVars>>
    \/ CallReturnToTop
          /\ UNCHANGED <<vars, glVars, scoreVars, angleVars, viewVars, playbackVars, synthVars, searchVars, buttonVars>>
    \/ Resume /\ UNCHANGED <<vars, glVars, scoreVars, angleVars, viewVars, playbackVars, synthVars, searchVars, buttonVars>>
    \/ TransportTick
          /\ UNCHANGED <<vars, glVars, scoreVars, angleVars, viewVars, playbackVars, synthVars, searchVars, buttonVars>>

\* A started transport does not stand still.
VocalSpec ==
    /\ VocalInit
    /\ [][VocalNext]_vocalVars
    /\ WF_vocalVars(TransportTick
                       /\ UNCHANGED <<vars, glVars, scoreVars, angleVars, viewVars,
                                      playbackVars, synthVars, searchVars, buttonVars>>)

---------------------------------------------------------------------------
(* Vocal: the synth pools, the synth of each track and the key.  A synth is  *)
(* known by its pool and its 0-based index in it; what the model keeps of a *)
(* synth is its detune.                                                      *)

\* The track lists of the scores: for each track whether its instrument is
\* percussion.
SynthTrackLists ==
    UNION {[1 .. n -> BOOLEAN] : n \in 0 .. MaxSynthTracks}

\* The keys assigned to the Vocal, in semitones.
SynthKeys == {0, 1}

\* The pitches whose angle is calculated while the key changes.
SynthPitches == {60, 72}

\* new Tone.PolySynth(...): not detuned.
NewSynth == [detune |-> 0]

\* The fields of the Vocal that the activation of synths reads and writes.
VocalSynths ==
    [noteSynths |-> noteSynths,
     percussionSynths |-> percussionSynths,
     activeNoteSynthCount |-> activeNoteSynthCount,
     activePercussionSynthCount |-> activePercussionSynthCount,
     tracks |-> trackSynths]

\* Variant: the active counts kept from one apply to the next.
DeactivateAllSynthsOmitted(v) == v

\* _deactivateAllSynths()
DeactivateAllSynths(v) ==
    [v EXCEPT !.activeNoteSynthCount = 0, !.activePercussionSynthCount = 0]

\* _activateNoteSynth(): the Vocal after it and the synth it returns.
ActivateNoteSynth(v) ==
    LET synthIndex == v.activeNoteSynthCount
        counted == [v EXCEPT !.activeNoteSynthCount = synthIndex + 1]
    IN  IF synthIndex < Len(v.noteSynths)
        THEN [vocal |-> counted, synth |-> [pool |-> "note", index |-> synthIndex]]
        ELSE [vocal |-> [counted EXCEPT !.noteSynths = Append(@, NewSynth)],
              synth |-> [pool |-> "note", index |-> Len(v.noteSynths)]]

\* _activatePercussionSynth(): the Vocal after it and the synth it returns.
ActivatePercussionSynth(v) ==
    LET synthIndex == v.activePercussionSynthCount
        counted == [v EXCEPT !.activePercussionSynthCount = synthIndex + 1]
    IN  IF synthIndex < Len(v.percussionSynths)
        THEN [vocal |-> counted, synth |-> [pool |-> "percussion", index |-> synthIndex]]
        ELSE [vocal |-> [counted EXCEPT !.percussionSynths = Append(@, NewSynth)],
              synth |-> [pool |-> "percussion", index |-> Len(v.percussionSynths)]]

\* score.tracks.map(track => ...): a synth activated for each track in turn,
\* from the percussion pool for a percussion track; `bound` is the array made
\* so far.
RECURSIVE MapTracks(_, _, _)
MapTracks(v, trackList, bound) ==
    IF trackList = <<>>
    THEN [v EXCEPT !.tracks = bound]
    ELSE LET activated == IF Head(trackList)
                          THEN ActivatePercussionSynth(v)
                          ELSE ActivateNoteSynth(v)
         IN  MapTracks(activated.vocal, Tail(trackList),
                       Append(bound, [synth |-> activated.synth]))

\* The synth `synth` is that of an entry of this._tracks.
OfATrack(v, synth) == \E t \in 1 .. Len(v.tracks) : v.tracks[t].synth = synth

\* Variant: _updateKey that sets no detune.
UpdateKeyOmitted(v, k) == v

\* _updateKey(): track.synth.set({ detune: this.key * 100 }) for each entry of
\* this._tracks.
UpdateKey(v, k) ==
    [v EXCEPT
        !.noteSynths =
            [i \in 1 .. Len(@) |->
                IF OfATrack(v, [pool |-> "note", index |-> i - 1])
                THEN [detune |-> k * 100] ELSE @[i]],
        !.percussionSynths =
            [i \in 1 .. Len(@) |->
                IF OfATrack(v, [pool |-> "percussion", index |-> i - 1])
                THEN [detune |-> k * 100] ELSE @[i]]]

\* apply(score) after the await, as far as the synths go.
SynthsApplied(v, trackList, k) ==
    UpdateKey(MapTracks(DeactivateAllSynths(v), trackList, <<>>), k)

\* The number of tracks of a list that are, or are not, percussion tracks.
TracksOfKind(trackList, percussion) ==
    Cardinality({t \in 1 .. Len(trackList) : trackList[t] = percussion})

\* The Vocal takes the fields of v.
BecomeVocalSynths(v) ==
    /\ noteSynths' = v.noteSynths
    /\ percussionSynths' = v.percussionSynths
    /\ activeNoteSynthCount' = v.activeNoteSynthCount
    /\ activePercussionSynthCount' = v.activePercussionSynthCount
    /\ trackSynths' = v.tracks

\* The detune of a synth of the Vocal v.
DetuneIn(v, synth) ==
    IF synth.pool = "note"
    THEN v.noteSynths[synth.index + 1].detune
    ELSE v.percussionSynths[synth.index + 1].detune

\* A synth of the pools of v is the synth of a track of w, and in v it was
\* detuned for another key than k.
TakesStaleSynth(v, w, k) ==
    \E t \in 1 .. Len(w.tracks) :
        LET synth == w.tracks[t].synth
        IN  /\ synth.index < IF synth.pool = "note"
                              THEN Len(v.noteSynths) ELSE Len(v.percussionSynths)
            /\ DetuneIn(v, synth) # k * 100

\* apply(score) up to `await Tone.start()`
CallApplyTracks(trackList) ==
    /\ synthHistory.applies < MaxSynthApplies
    /\ Len(synthPending) < MaxSynthPending
    /\ synthPending' = Append(synthPending, trackList)
    /\ synthHistory' = [synthHistory EXCEPT !.applies = @ + 1]
    /\ UNCHANGED <<noteSynths, percussionSynths, activeNoteSynthCount,
                   activePercussionSynthCount, trackSynths, angleVars>>

\* Tone.start() has resolved for the apply call that has waited longest.
ApplyTracks ==
    /\ synthPending # <<>>
    /\ LET trackList == Head(synthPending)
       IN  /\ BecomeVocalSynths(SynthsApplied(VocalSynths, trackList, key))
           /\ synthHistory' =
                  [synthHistory EXCEPT
                      !.applied = trackList,
                      !.mostNotes = Max(@, TracksOfKind(trackList, FALSE)),
                      !.mostPercussions = Max(@, TracksOfKind(trackList, TRUE)),
                      !.reusedStale =
                          TakesStaleSynth(VocalSynths,
                                          SynthsApplied(VocalSynths, trackList, key), key)]
    /\ synthPending' = Tail(synthPending)
    /\ UNCHANGED angleVars

\* set key(value)
SetVocalKey(k) ==
    /\ key' = k
    /\ BecomeVocalSynths(UpdateKey(VocalSynths, k))
    /\ UNCHANGED <<synthPending, synthHistory, circleNumerator, circleDenominator, theta>>

SynthInit ==
    /\ RendererInit
    /\ GLAtRest
    /\ ScoreAtRest
    /\ AngleAtRest
    /\ ViewAtRest
    /\ PlaybackAtRest
    /\ VocalAtRest
    /\ ButtonAtRest
    /\ SearchAtRest
    /\ SynthAtRest

SynthNext ==
    \/ \E trackList \in SynthTrackLists :
          CallApplyTracks(trackList)
              /\ UNCHANGED <<vars, glVars, scoreVars, viewVars, playbackVars, vocalVars, searchVars, buttonVars>>
    \/ ApplyTracks /\ UNCHANGED <<vars, glVars, scoreVars, viewVars, playbackVars, vocalVars, searchVars, buttonVars>>
    \/ \E k \in SynthKeys :
          SetVocalKey(k)
              /\ UNCHANGED <<vars, glVars, scoreVars, viewVars, playbackVars, vocalVars, searchVars, buttonVars>>
    \/ \E pitch \in SynthPitches :
          CalculateTheta(pitch)
              /\ UNCHANGED <<vars, glVars, scoreVars, viewVars, playbackVars, vocalVars,
                             synthVars, searchVars, buttonVars>>

SynthSpec == SynthInit /\ [][SynthNext]_<<angleVars, synthVars>>

---------------------------------------------------------------------------
(* binarySearch(array, value, key), one iteration of its loop at a time.  The *)
(* arrays are arrays of time-signature events, the key of an event is its    *)
(* ticks; index k of an array is element k + 1 of the sequence.              *)

\* The ticks of the events, and the values searched for: one before every
\* event, one after.
SearchTicks == 1 .. MaxSearchKey

SearchValues == 0 .. MaxSearchKey + 1

\* The arrays, sorted or not.
SearchArrays ==
    UNION {[1 .. n -> [ticks : SearchTicks]] : n \in 0 .. MaxSearchLen}

\* event => event.ticks
KeyOf(item) == item.ticks

\* Variant: the middle taken from index 0.
MidFromZero(le, gt) == gt \div 2

\* le + Math.floor((gt - le) / 2)
Mid(le, gt) == le + (gt - le) \div 2

\* Variant: key(array[mid]) < value
KeptBelowStrictly(k, value) == k < value

\* key(array[mid]) <= value
KeptBelow(k, value) == k <= value

\* The call at its first test of the loop condition: le = 0, gt = array.length.
Searching(array, value) ==
    [pc |-> "loop", array |-> array, value |-> value, le |-> 0, gt |-> Len(array)]

\* One iteration of `while (1 < gt - le)`.
Iterate ==
    /\ search.pc = "loop"
    /\ 1 < search.gt - search.le
    /\ LET mid == Mid(search.le, search.gt)
       IN  search' = IF KeptBelow(KeyOf(search.array[mid + 1]), search.value)
                     THEN [search EXCEPT !.le = mid]
                     ELSE [search EXCEPT !.gt = mid]

\* The loop left: return le.
Return ==
    /\ search.pc = "loop"
    /\ ~(1 < search.gt - search.le)
    /\ search' = [search EXCEPT !.pc = "returned"]

SearchInit ==
    /\ RendererInit
    /\ GLAtRest
    /\ ScoreAtRest
    /\ AngleAtRest
    /\ ViewAtRest
    /\ PlaybackAtRest
    /\ VocalAtRest
    /\ ButtonAtRest
    /\ SynthAtRest
    /\ \E array \in SearchArrays, value \in SearchValues :
           search = Searching(array, value)

SearchNext ==
    \/ Iterate
          /\ UNCHANGED <<vars, glVars, scoreVars, angleVars, viewVars, playbackVars,
                         vocalVars, synthVars, buttonVars>>
    \/ Return
          /\ UNCHANGED <<vars, glVars, scoreVars, angleVars, viewVars, playbackVars,
                         vocalVars, synthVars, buttonVars>>

\* A call that has begun runs on.
SearchSpec ==
    /\ SearchInit
    /\ [][SearchNext]_searchVars
    /\ WF_searchVars(SearchNext)

---------------------------------------------------------------------------
(* initButtonGroup(element, listener) and the clicks on the buttons.  A data  *)
(* value is undefined when the element has no data-value attribute; a click  *)
(* on a button is dispatched at the button or at an element inside it.       *)

\* The data values of the buttons and of the group in the document.
ButtonValues == {Str("12 semitones"), Str("circle of fifths")}

GroupValues == ButtonValues \cup {Undefined}

\* A button: its data value, whether it carries 'selected', whether it has an
\* element inside, which has no data value.
Buttons == [value : ButtonValues, selected : BOOLEAN, inner : BOOLEAN]

ButtonGroups == UNION {[1 .. n -> Buttons] : n \in 0 .. MaxButtons}

\* dataset.value = v: the attribute is set to the string of v.
ToDataValue(v) == IF v = Undefined THEN Str("undefined") ELSE v

\* onChange(): button.classList.toggle('selected', button.dataset.value ===
\* element.dataset.value) for every button.
OnChange(group, value) ==
    [i \in 1 .. Len(group) |-> [group[i] EXCEPT !.selected = (group[i].value = value)]]

\* listener(value)
Listen(value) == [calls |-> listener.calls + 1, latest |-> value]

\* initButtonGroup after the click listeners are added: the group without a
\* data value takes that of its first button, if it has one; onChange(); the
\* listener called with the value of the group.
InitButtonGroup ==
    /\ ~buttonHistory.initialised
    /\ LET value == IF groupValue = Undefined /\ buttons # <<>>
                    THEN ToDataValue(buttons[1].value)
                    ELSE groupValue
       IN  /\ groupValue' = value
           /\ buttons' = OnChange(buttons, value)
           /\ listener' = Listen(value)
           /\ buttonHistory' =
                  [buttonHistory EXCEPT !.initialised = TRUE, !.original = groupValue]

\* e.target.dataset.value for a click on button i, dispatched at the button or
\* at the element inside it.
TargetValue(i, atInner) == IF atInner THEN Undefined ELSE buttons[i].value

\* The click listener of button i.
Click(i, atInner) ==
    /\ buttonHistory.initialised
    /\ buttonHistory.clicks < MaxClicks
    /\ i \in 1 .. Len(buttons)
    /\ atInner => buttons[i].inner
    /\ LET value == TargetValue(i, atInner)
       IN  /\ groupValue' = ToDataValue(value)
           /\ buttons' = OnChange(buttons, ToDataValue(value))
           /\ listener' = Listen(value)
    /\ buttonHistory' =
           [buttonHistory EXCEPT !.clicks = @ + 1, !.clicked = i, !.atInner = atInner]

ButtonInit ==
    /\ RendererInit
    /\ GLAtRest
    /\ ScoreAtRest
    /\ AngleAtRest
    /\ ViewAtRest
    /\ PlaybackAtRest
    /\ VocalAtRest
    /\ SynthAtRest
    /\ SearchAtRest
    /\ groupValue \in GroupValues
    /\ buttons \in ButtonGroups
    /\ listener = NoListenerCall
    /\ buttonHistory = NoButtonHistory

ButtonNext ==
    \/ InitButtonGroup
          /\ UNCHANGED <<vars, glVars, scoreVars, angleVars, viewVars, playbackVars,
                         vocalVars, synthVars, searchVars>>
    \/ \E i \in 1 .. MaxButtons, atInner \in BOOLEAN :
          Click(i, atInner)
              /\ UNCHANGED <<vars, glVars, scoreVars, angleVars, viewVars, playbackVars,
                             vocalVars, synthVars, searchVars>>

ButtonSpec == ButtonInit /\ [][ButtonNext]_buttonVars

---------------------------------------------------------------------------
(* Vocabulary of the properties *)

NoteEventsOf(s) == IF s = NoScore THEN <<>> ELSE s.notes
PercussionEventsOf(s) == IF s = NoScore THEN <<>> ELSE s.percussions

FinishedBy(event, t) == event.time + event.duration <= t
StartedBy(event, t) == event.time <= t
AppearingBy(event, t, lead) == event.time + lead <= t

CountFinished(events, t) ==
    Cardinality({i \in 1 .. Len(events) : FinishedBy(events[i], t)})

CountStarted(events, t) ==
    Cardinality({i \in 1 .. Len(events) : StartedBy(events[i], t)})

\* The least of the 0-based indexes `hits` that is at or after `from`; the length if none.
FirstAtOrAfter(hits, from, length) ==
    LET later == {k \in hits : k >= from}
    IN  IF later = {} THEN Max(from, length)
        ELSE CHOOSE k \in later : \A other \in later : k <= other

FirstUnfinished(events, from, t) ==
    FirstAtOrAfter({k \in 0 .. Len(events) - 1 : ~FinishedBy(events[k + 1], t)},
                   from, Len(events))

FirstNotStarted(events, from, t) ==
    FirstAtOrAfter({k \in 0 .. Len(events) - 1 : ~StartedBy(events[k + 1], t)},
                   from, Len(events))

FirstNotAppearing(events, from, t, lead) ==
    FirstAtOrAfter({k \in 0 .. Len(events) - 1 : ~AppearingBy(events[k + 1], t, lead)},
                   from, Len(events))

Ordered(offsets, length) ==
    /\ 0 <= offsets.released
    /\ offsets.released <= offsets.attacked
    /\ offsets.attacked <= offsets.appeared
    /\ offsets.appeared <= length

NotBehind(after, before) ==
    /\ after.released >= before.released
    /\ after.attacked >= before.attacked
    /\ after.appeared >= before.appeared

\* The example stream: 1 s at 0 s, then 0.5 s and 2 s at 1 s, in the order given.
ExampleNotes ==
    <<[time |-> 0, duration |-> 560],
      [time |-> 560, duration |-> 280],
      [time |-> 560, duration |-> 1120]>>

\* The same notes in the order the Score constructor gives them.
SortedExampleNotes ==
    <<[time |-> 0, duration |-> 560],
      [time |-> 560, duration |-> 1120],
      [time |-> 560, duration |-> 280]>>

---------------------------------------------------------------------------
(* Properties *)

\* C1: in every state, so after every apply, reset and refresh, both streams'
\* cursors satisfy 0 <= released <= attacked <= appeared <= length of the
\* current score's event array.
C1_CursorsOrdered ==
    /\ Ordered(noteOffsets, Len(NoteEventsOf(score)))
    /\ Ordered(percussionOffsets, Len(PercussionEventsOf(score)))

\* C1 witness: a refresh has left the note cursors strictly apart, the last one
\* at the length, and a percussion hit appearing but not yet attacked.
C1_Witness ==
    /\ lastCall.made
    /\ noteOffsets.released < noteOffsets.attacked
    /\ noteOffsets.attacked < noteOffsets.appeared
    /\ noteOffsets.appeared = Len(score.notes)
    /\ percussionOffsets = [released |-> 0, attacked |-> 0, appeared |-> 1]

\* C2: a refresh whose currentTime is not below the last observed time moves no
\* cursor of either stream backward.
C2_CursorsMonotone ==
    [][(lastCall'.made /\ lastCall'.currentTime >= lastNoteTime
            /\ lastCall'.currentTime >= lastPercussionTime)
       => (NotBehind(noteOffsets', noteOffsets)
            /\ NotBehind(percussionOffsets', percussionOffsets))]_vars

\* C2 witness: with no regression since the score was applied, refreshes have
\* carried all three note cursors and the percussion cursors to the end.
C2_Witness ==
    /\ lastCall.made
    /\ ~fresh.tracking
    /\ lastNoteTime = 280 * MaxClock
    /\ Len(score.notes) = MaxNotes
    /\ noteOffsets.released = Len(score.notes)
    /\ percussionOffsets.released = 1

\* C3: from a refresh whose currentTime is below the last observed time onward,
\* the cursors and last observed times equal those of a freshly constructed
\* index fed only the calls from that refresh onward.
C3_RegressionEqualsFresh ==
    fresh.tracking =>
        /\ noteOffsets = fresh.noteOffsets
        /\ lastNoteTime = fresh.lastNoteTime
        /\ percussionOffsets = fresh.percussionOffsets
        /\ lastPercussionTime = fresh.lastPercussionTime

\* C3 witness: after a regression and a later refresh the cursors have advanced again.
C3_Witness ==
    /\ fresh.tracking
    /\ lastNoteTime = 560
    /\ noteOffsets.released = 1
    /\ noteOffsets.attacked = 3
    /\ percussionOffsets.released = 1

\* C4 as claimed: after every note refresh, released equals the number of events
\* with time + duration <= currentTime.
C4_ReleasedCountsFinished ==
    lastCall.made =>
        noteOffsets.released = CountFinished(score.notes, lastNoteTime)

\* C4 amended: after every note refresh, released is the index of the first event
\* with time + duration > currentTime (the length if none), which is at most the
\* number of events with time + duration <= currentTime.
C4_ReleasedIsFinishedPrefix ==
    lastCall.made =>
        /\ noteOffsets.released = FirstUnfinished(score.notes, 0, lastNoteTime)
        /\ noteOffsets.released <= CountFinished(score.notes, lastNoteTime)

\* C4 witness: a finished note stands behind an unfinished one, so the cursor
\* stays below the count of finished notes.
C4_Witness ==
    /\ lastCall.made
    /\ noteOffsets.released = 1
    /\ CountFinished(score.notes, lastNoteTime) = 2

\* C5: after every refresh, in both streams, attacked is the first index at or
\* after released whose event has time > currentTime (the length if none), every
\* event below it has time <= currentTime, and it equals the number of events
\* with time <= currentTime.
C5_AttackedIsStartedCount ==
    lastCall.made =>
        /\ noteOffsets.attacked
               = FirstNotStarted(score.notes, noteOffsets.released, lastNoteTime)
        /\ \A i \in 1 .. noteOffsets.attacked : StartedBy(score.notes[i], lastNoteTime)
        /\ noteOffsets.attacked = CountStarted(score.notes, lastNoteTime)
        /\ percussionOffsets.attacked
               = FirstNotStarted(score.percussions, percussionOffsets.released,
                                 lastPercussionTime)
        /\ \A i \in 1 .. percussionOffsets.attacked :
               StartedBy(score.percussions[i], lastPercussionTime)
        /\ percussionOffsets.attacked = CountStarted(score.percussions, lastPercussionTime)

\* C5 witness: one note is released, two more are attacked at exactly their start
\* time, and a percussion hit is attacked at exactly its time.
C5_Witness ==
    /\ lastCall.made
    /\ lastNoteTime = 560
    /\ noteOffsets.released = 1
    /\ noteOffsets.attacked = 3
    /\ Len(score.percussions) = 1
    /\ score.percussions[1].time = 280
    /\ percussionOffsets.attacked = 1

\* C6 as claimed: after every refresh, whatever the earlier calls were, appeared
\* is the first index at or after attacked whose event has
\* time + appearingLead > currentTime for the lead of this call.
C6_AppearedMatchesThisLead ==
    lastCall.made =>
        noteOffsets.appeared
            = FirstNotAppearing(score.notes, noteOffsets.attacked, lastNoteTime,
                                lastCall.noteAppearingTime)

\* C7: a refresh with the same currentTime and the same appearingLead as the
\* refresh before it leaves the cursors of both streams as they were.
C7_RefreshIdempotent ==
    [][(lastCall.made /\ lastCall' = lastCall)
       => (noteOffsets' = noteOffsets /\ percussionOffsets' = percussionOffsets)]_vars

\* C7 witness: a refresh has left the appeared cursor ahead of where a scan from
\* index 0 would put it, at a time at which some note is sounding.
C7_Witness ==
    /\ lastCall.made
    /\ noteOffsets.attacked > noteOffsets.released
    /\ noteOffsets.appeared
           > FirstNotAppearing(score.notes, 0, lastNoteTime, lastCall.noteAppearingTime)

C9_PercussionReleasedByReleasingTime ==
    lastCall.made =>
        \A i \in 1 .. Len(score.percussions) :
            /\ i <= percussionOffsets.released
               <=> lastPercussionTime >= score.percussions[i].time + percussionReleasingTime
            /\ i <= percussionOffsets.attacked
               <=> lastPercussionTime >= score.percussions[i].time

\* C9 witness: a hit is released exactly percussionReleasingTime after its time,
\* before its own duration has passed.
C9_Witness ==
    /\ lastCall.made
    /\ Len(score.percussions) = 1
    /\ percussionOffsets.released = 1
    /\ lastPercussionTime = score.percussions[1].time + percussionReleasingTime
    /\ lastPercussionTime < score.percussions[1].time + score.percussions[1].duration

\* C10: every step that installs another score leaves the three cursors of both
\* streams and both last observed times at 0, whatever they were, and the first
\* refresh after a reset gives the cursors of a scan of the arrays from index 0.
C10_ApplyResets ==
    [][/\ score' # score
          => /\ noteOffsets' = InitialOffsets /\ lastNoteTime' = 0
             /\ percussionOffsets' = InitialOffsets /\ lastPercussionTime' = 0
       /\ (~lastCall.made /\ lastCall'.made)
          => /\ noteOffsets'
                   = UpdateNoteOffsets(InitialOffsets, 0, score'.notes,
                                       lastCall'.currentTime,
                                       lastCall'.noteAppearingTime).offsets
             /\ percussionOffsets'
                   = UpdatePercussionOffsets(InitialOffsets, 0, score'.percussions,
                                             lastCall'.currentTime,
                                             percussionAppearingTime).offsets]_vars

\* C10 witness: a score is installed and not yet refreshed, cursors and times at
\* 0, under a configuration that was changed since construction.
C10_Witness ==
    /\ score # NoScore
    /\ Len(score.notes) = MaxNotes
    /\ ~lastCall.made
    /\ noteOffsets = InitialOffsets /\ lastNoteTime = 0
    /\ percussionOffsets = InitialOffsets /\ lastPercussionTime = 0
    /\ noteDirection = "outward"

---------------------------------------------------------------------------
(* Vocabulary of the frame properties *)

\* A render call has been made on the current score since the last reset; its
\* currentTime is then the last observed time.
Rendered == frame.called /\ score # NoScore

IsDraw(o, stream, style) == o.op = "draw" /\ o.stream = stream /\ o.style = style

\* The places in a frame of the draws of one stream in one style.
DrawPlaces(ops, stream, style) ==
    {i \in 1 .. Len(ops) : IsDraw(ops[i], stream, style)}

\* The 0-based indexes of the events drawn in one style.
DrawnIndexes(ops, stream, style) ==
    {ops[i].index : i \in DrawPlaces(ops, stream, style)}

\* The place in the order of a frame to which an operation belongs.
Phase(o) ==
    CASE o = ReadClock -> 0
      [] o = Refresh("notes") -> 1
      [] o = Refresh("percussions") -> 2
      [] o = Clear -> 3
      [] IsDraw(o, "notes", "appearing") -> 4
      [] IsDraw(o, "notes", "sounding") -> 5
      [] IsDraw(o, "none", "marker") -> 6
      [] IsDraw(o, "percussions", "appearing") -> 7
      [] IsDraw(o, "percussions", "sounding") -> 8
      [] OTHER -> 9

PlacesOfPhase(ops, phase) == {i \in 1 .. Len(ops) : Phase(ops[i]) = phase}

\* The frame of the first render of a score at time t, with the constructor's
\* direction and magnification.
FirstFrame(s, t) ==
    Frame(s,
          UpdateNoteOffsets(InitialOffsets, 0, s.notes, t,
                            NoteAppearingTime("inward", 100)).offsets,
          UpdatePercussionOffsets(InitialOffsets, 0, s.percussions, t,
                                  percussionAppearingTime).offsets,
          t, "inward", NoteAppearingTime("inward", 100))

\* The score of one note of 0.5 s at 2 s.
OneNoteScore ==
    [notes |-> <<[time |-> 1120, duration |-> 280]>>,
     percussions |-> <<>>,
     measureTime |-> 1120]

---------------------------------------------------------------------------
(* Properties of the frame *)

\* C11: in every frame rendered with a score, a note gets a sounding-style draw
\* exactly if it lies in [released, attacked) and currentTime - time < duration,
\* which are exactly the notes with time <= currentTime < time + duration.  For
\* the single note of 0.5 s at 2 s: drawn at 2.25 s, no draw for it at 3 s.
C11_SoundingNotesDrawn ==
    /\ Rendered =>
          \A k \in 0 .. Len(score.notes) - 1 :
              LET note == score.notes[k + 1]
                  drawn == k \in DrawnIndexes(frame.ops, "notes", "sounding")
              IN  /\ drawn <=> /\ noteOffsets.released <= k
                               /\ k < noteOffsets.attacked
                               /\ lastNoteTime - note.time < note.duration
                  /\ drawn <=> /\ note.time <= lastNoteTime
                               /\ lastNoteTime < note.time + note.duration
    /\ DrawnIndexes(FirstFrame(OneNoteScore, 1260), "notes", "sounding") = {0}
    /\ DrawnIndexes(FirstFrame(OneNoteScore, 1680), "notes", "sounding") = {}
    /\ DrawnIndexes(FirstFrame(OneNoteScore, 1680), "notes", "appearing") = {}

\* C11 witness: the single note of 0.5 s at 2 s has been rendered at 2.25 s and
\* drawn in sounding style.
C11_Witness ==
    /\ Rendered
    /\ score.notes = OneNoteScore.notes
    /\ lastNoteTime = 1260
    /\ DrawnIndexes(frame.ops, "notes", "sounding") = {0}

\* C12: the operations of one render call come in this order: the refresh of the
\* note cursors and of the percussion cursors, the clear, the appearing notes,
\* the sounding notes, the marker, the appearing percussion, the sounding
\* percussion; no sounding note is drawn before an appearing note.
C12_RenderOrder ==
    Rendered =>
        LET ops == frame.ops
        IN  /\ \A i, j \in 1 .. Len(ops) : i < j => Phase(ops[i]) <= Phase(ops[j])
            /\ \A phase \in {1, 2, 3} : Cardinality(PlacesOfPhase(ops, phase)) = 1
            /\ PlacesOfPhase(ops, 9) = {}
            /\ \A i \in DrawPlaces(ops, "notes", "sounding") :
                  \A j \in DrawPlaces(ops, "notes", "appearing") : j < i

\* C12 witness: a frame with a draw of each of the five kinds.
C12_Witness ==
    /\ Rendered
    /\ \A phase \in 4 .. 8 : PlacesOfPhase(frame.ops, phase) # {}

\* C13 as claimed: of the percussion events drawn from a slice, the one with the
\* largest index (the latest hit) is the last one drawn.
C13_LatestHitDrawnLast ==
    Rendered =>
        \A style \in {"appearing", "sounding"} :
            LET places == DrawPlaces(frame.ops, "percussions", style)
            IN  \A last \in places :
                    (\A i \in places : i <= last)
                        => \A i \in places : frame.ops[i].index <= frame.ops[last].index

\* C13 as amended: the percussion events of a slice are drawn in descending
\* order of index, so the one with the smallest index (the earliest hit) is the
\* last one drawn.
C13_EarliestHitDrawnLast ==
    Rendered =>
        \A style \in {"appearing", "sounding"} :
            LET places == DrawPlaces(frame.ops, "percussions", style)
            IN  \A i, j \in places :
                    i < j => frame.ops[i].index > frame.ops[j].index

\* C13 witness: two hits at different times are both drawn in sounding style.
C13_Witness ==
    /\ Rendered
    /\ Cardinality(DrawPlaces(frame.ops, "percussions", "sounding")) = 2
    /\ score.percussions[1].time < score.percussions[2].time

\* C14: a stream without events keeps its three cursors at 0, and no frame has
\* a draw for an event of that stream.
C14_EmptyStreamIdle ==
    score # NoScore =>
        /\ score.notes = <<>> =>
              /\ noteOffsets = InitialOffsets
              /\ \A i \in 1 .. Len(frame.ops) :
                    ~(frame.ops[i].op = "draw" /\ frame.ops[i].stream = "notes")
        /\ score.percussions = <<>> =>
              /\ percussionOffsets = InitialOffsets
              /\ \A i \in 1 .. Len(frame.ops) :
                    ~(frame.ops[i].op = "draw" /\ frame.ops[i].stream = "percussions")

\* C14 witness: a score without notes has been rendered at 3 s, after its hits.
C14_Witness ==
    /\ Rendered
    /\ score.notes = <<>>
    /\ Len(score.percussions) = 2
    /\ lastNoteTime = 1680

\* C15: every render call made with a score draws the marker exactly once, at
\* the current part of the measure, whatever the slices hold.
C15_OneMarker ==
    Rendered =>
        /\ Cardinality(DrawPlaces(frame.ops, "none", "marker")) = 1
        /\ \A i \in DrawPlaces(frame.ops, "none", "marker") :
              frame.ops[i].at = MeasureFraction(lastNoteTime, score.measureTime)

\* C15 witness: a score with no event at all has been rendered at 2.25 s, and
\* the marker is the only draw of the frame.
C15_Witness ==
    /\ Rendered
    /\ score.notes = <<>>
    /\ score.percussions = <<>>
    /\ score.measureTime = 224
    /\ lastNoteTime = 1260
    /\ frame.ops = <<ReadClock, Refresh("notes"), Refresh("percussions"), Clear,
                     Draw("none", "marker", 0, 140)>>

\* C16: a render call made while no score is applied does not read the clock,
\* changes no cursor and no last observed time, does not clear and draws nothing.
C16_NoScoreNoOp ==
    score = NoScore =>
        /\ frame.ops = <<>>
        /\ noteOffsets = InitialOffsets
        /\ percussionOffsets = InitialOffsets
        /\ lastNoteTime = 0
        /\ lastPercussionTime = 0
        /\ lastCall = NoCall

\* C16 witness: render has been called and has returned with no score applied.
C16_Witness ==
    /\ score = NoScore
    /\ frame.called

---------------------------------------------------------------------------
(* Properties of the construction and of the resize timeout *)

\* The canvas grants a context, both shaders compile and the program links.
AllGranted == browser.context /\ browser.vertex /\ browser.fragment /\ browser.link

\* C17: the construction throws whenever the context cannot be obtained, a
\* shader does not compile or the program does not link; a renderer is returned
\* only fully initialised, and a construction that threw has set no this._gl and
\* added no listener through which the object could be reached.
C17_ConstructionFailsWhole ==
    /\ renderer = "thrown" <=> (renderer # "none" /\ ~AllGranted)
    /\ renderer = "constructed" =>
          /\ AllGranted
          /\ glState.gl
          /\ glState.program = "linked"
          /\ glState.vShader = "live"
          /\ glState.fShader = "live"
    /\ renderer = "thrown" =>
          /\ ~glState.gl
          /\ ~glState.listening
          /\ glState.program # "linked"
          /\ timers = {}

\* C17 witness: the construction has thrown on a program that does not link.
C17_Witness ==
    /\ renderer = "thrown"
    /\ browser.context
    /\ browser.vertex
    /\ browser.fragment
    /\ ~browser.link

\* C19, the timeout: at most one timeout is pending, resizeTimerId is non-null
\* exactly while one is, and the pending one is the one the latest resize event
\* set, due 50 ms after it.
C19_OneTimer ==
    /\ Cardinality(timers) <= 1
    /\ resizeTimerId # NullTimer <=> timers # {}
    /\ \A t \in timers : t.id = resizeTimerId /\ t.due = lastResize + resizeDelay

\* C19, the quiet period: a resizeCanvas call after a resize event comes 50 ms
\* or more after the latest one, and at most once.
C19_CalledAfterQuiet ==
    lastResize >= 0 =>
        /\ callsSinceResize <= 1
        /\ callsSinceResize = 1 => resizedAt >= lastResize + resizeDelay

\* C19 as claimed, the bursts: a resize event that comes 50 ms or more after the
\* one before it begins a new burst, and finds resizeCanvas called for the burst
\* before it.
C19_CalledOncePerBurst ==
    [][(nextTimerId' = nextTimerId + 1 /\ lastResize >= 0
            /\ now >= lastResize + resizeDelay)
       => callsSinceResize = 1]_glVars

\* C19 as amended, the bursts: a resize event finds resizeCanvas not yet called
\* for the events before it exactly if the timeout of the latest of them is
\* still pending, which it always is less than 50 ms after that event, and
\* may be later, until the event loop runs the callback.
C19_CalledUnlessCancelled ==
    [][(nextTimerId' = nextTimerId + 1 /\ lastResize >= 0)
       => /\ callsSinceResize = 0 <=> resizeTimerId # NullTimer
          /\ now < lastResize + resizeDelay => callsSinceResize = 0]_glVars

\* C19, the end: after the last resize event resizeCanvas is eventually called.
C19_EventuallyCalled == (resizeTimerId # NullTimer) ~> (callsSinceResize = 1)

\* C19 as claimed: one pending timeout at most; a call only after 50 ms without
\* a resize event; exactly one call for each burst of resize events less than
\* 50 ms apart; a call eventually after the last resize event.
C19_DebounceAsClaimed ==
    /\ []C19_OneTimer
    /\ []C19_CalledAfterQuiet
    /\ C19_CalledOncePerBurst
    /\ C19_EventuallyCalled

\* C19 as amended: one pending timeout at most; a call only after 50 ms without
\* a resize event; at most one call for each burst, none while its events are
\* less than 50 ms apart, and none at all when the next resize event is handled
\* before the callback has run; a call eventually after the last resize event.
C19_Debounce ==
    /\ []C19_OneTimer
    /\ []C19_CalledAfterQuiet
    /\ C19_CalledUnlessCancelled
    /\ C19_EventuallyCalled

\* C19 witness: two resize events 25 ms apart were followed by one resizeCanvas
\* call, 50 ms after the second.
C19_Witness ==
    /\ nextTimerId = 3
    /\ lastResize = 25
    /\ resizedAt = 75
    /\ callsSinceResize = 1
    /\ resizeTimerId = NullTimer

---------------------------------------------------------------------------
(* Properties of the Score constructor *)

\* Ascending by time, and by descending duration where the times are equal.
TimeThenLongestFirst(events) ==
    \A i, j \in 1 .. Len(events) :
        i < j => \/ events[i].time < events[j].time
                 \/ /\ events[i].time = events[j].time
                    /\ events[i].duration >= events[j].duration

\* C18: after the constructor, notes and percussions are sorted ascending by
\* time, ties by descending duration, and the order is that of the durations
\* after the normalisation: every percussion event has duration 0.1, so hits at
\* one time tie and stay in the order of their tracks, whatever durations they
\* had in the Midi.
C18_SortedAfterNormalisation ==
    built.constructed =>
        /\ TimeThenLongestFirst(built.notes)
        /\ TimeThenLongestFirst(built.percussions)
        /\ \A i \in 1 .. Len(built.percussions) :
              built.percussions[i].duration = PercussionDuration
        /\ \A i, j \in 1 .. Len(built.percussions) :
              (i < j /\ built.percussions[i].time = built.percussions[j].time)
                  => built.percussions[i].trackIndex <= built.percussions[j].trackIndex

\* C18 witness: two percussion tracks with a hit at 0 s each, the second one the
\* longer in the Midi, and a track of notes given out of order.
C18_Witness ==
    /\ built.constructed
    /\ Len(midi) = 2
    /\ midi[1].percussion
    /\ midi[2].percussion
    /\ midi[1].notes = <<[time |-> 560, duration |-> 280], [time |-> 0, duration |-> 280]>>
    /\ midi[2].notes = <<[time |-> 0, duration |-> 560]>>
    /\ Len(built.percussions) = 3

---------------------------------------------------------------------------
(* Properties of the angle *)

\* An angle of pi / over times the number pi is a whole number of turns.
WholeTurns(pi, over) == pi % (2 * over) = 0

\* C20: the angle in turns, theta / 2 pi, is (pitch + key - 72) * circleNumerator
\* / circleDenominator; on the circle {1, 12} with key 0 pitch 72 is at 0 turns
\* and pitch 84 at exactly 1 turn; on the circles {1, 12} and {7, 12} two
\* pitches 12 semitones apart are a whole number of turns apart.
C20_AngleInTurns ==
    /\ theta.calculated =>
          /\ theta.angle.pi * theta.denominator
                = 2 * theta.angle.over * (theta.midi + theta.key - 72) * theta.numerator
          /\ (theta.numerator = 1 /\ theta.denominator = 12 /\ theta.key = 0) =>
                /\ theta.midi = 72 => theta.angle.pi = 0
                /\ theta.midi = 84 => theta.angle.pi = 2 * theta.angle.over
    /\ circleDenominator = 12 =>
          \A pitch \in Pitches :
              LET low == Theta(pitch, key, circleNumerator, circleDenominator)
                  high == Theta(pitch + 12, key, circleNumerator, circleDenominator)
              IN  /\ low.over = high.over
                  /\ WholeTurns(high.pi - low.pi, low.over)
                  /\ high.pi - low.pi = 2 * low.over * circleNumerator

\* C20 witness: pitch 84 has been mapped on the circle {1, 12} with key 0, to
\* 24/12 pi, one turn.
C20_Witness ==
    /\ theta.calculated
    /\ theta.midi = 84
    /\ theta.key = 0
    /\ theta.numerator = 1
    /\ theta.denominator = 12
    /\ theta.angle = [pi |-> 24, over |-> 12]

---------------------------------------------------------------------------
(* Properties of the view offsets *)

\* The clock is at the sounding midpoint of the event: time + 0.5 * duration.
AtMidpoint(currentTime, time, duration) == 2 * currentTime = 2 * time + duration

\* The two offsets of the event and the clock of the latest calculation, under
\* the lead `appearingTime`.
InwardOfView == CalculateInwardViewOffset(view.currentTime, view.time, view.duration)
OutwardOfView(appearingTime) ==
    CalculateOutwardViewOffset(view.currentTime, appearingTime, view.time, view.duration)

\* C21 as claimed: at the sounding midpoint of an event the inward and the
\* outward view offset have opposite signs, one strictly positive and the other
\* strictly negative, for every event time, duration and negative lead.
C21_OppositeSignsAtMidpoint ==
    (view.calculated /\ AtMidpoint(view.currentTime, view.time, view.duration)) =>
        \A appearingTime \in AppearingTimes :
            \/ InwardOfView > 0 /\ OutwardOfView(appearingTime) < 0
            \/ InwardOfView < 0 /\ OutwardOfView(appearingTime) > 0

\* C21 as amended: at the sounding midpoint of an event the inward view offset
\* is 0 and the outward view offset is -appearingLead, strictly positive, for
\* every event time, duration and negative lead; the offset calculated is the
\* one of its direction.
C21_ZeroAndPositiveAtMidpoint ==
    (view.calculated /\ AtMidpoint(view.currentTime, view.time, view.duration)) =>
        /\ InwardOfView = 0
        /\ \A appearingTime \in AppearingTimes :
               /\ appearingTime < 0
               /\ OutwardOfView(appearingTime) = -2 * appearingTime
               /\ OutwardOfView(appearingTime) > 0
        /\ view.direction = "inward" => view.viewOffset = 0
        /\ view.direction = "outward" => view.viewOffset = -2 * view.appearingTime

\* C21 witness: the outward offset of a 0.5 s event at 1 s has been calculated
\* at 1.25 s, its midpoint, under the lead of magnification 100.
C21_Witness ==
    /\ view.calculated
    /\ view.direction = "outward"
    /\ view.time = 560
    /\ view.duration = 280
    /\ view.currentTime = 700
    /\ view.appearingTime = -840
    /\ view.viewOffset = 1680

---------------------------------------------------------------------------
(* Properties of the view offsets in a frame *)

\* Clock times every quarter second up to 3.75 s, among them the midpoint of
\* every note of the frames.
MidpointClockTimes == {140 * k : k \in 0 .. 15}

\* C22: the inward view offset of a note is strictly decreasing in currentTime,
\* positive before the note's temporal midpoint and 0 exactly at it; and every
\* note drawn in appearing style by a render in inward mode is drawn at its
\* inward view offset, which is strictly positive.
C22_InwardOffsetFallsToZeroAtMidpoint ==
    Rendered =>
        /\ \A k \in 1 .. Len(score.notes) :
               LET note == score.notes[k]
               IN  \A t \in MidpointClockTimes \cup FrameClockTimes :
                       LET offset == CalculateInwardViewOffset(t, note.time, note.duration)
                       IN  /\ \A later \in MidpointClockTimes :
                                  t < later =>
                                      offset > CalculateInwardViewOffset(later, note.time,
                                                                         note.duration)
                           /\ 2 * t < 2 * note.time + note.duration => offset > 0
                           /\ offset = 0 <=> AtMidpoint(t, note.time, note.duration)
        /\ frame.direction = "inward" =>
               \A i \in DrawPlaces(frame.ops, "notes", "appearing") :
                   LET note == score.notes[frame.ops[i].index + 1]
                   IN  /\ frame.ops[i].at
                            = CalculateInwardViewOffset(lastNoteTime, note.time, note.duration)
                       /\ frame.ops[i].at > 0

\* C22 witness: a render in inward mode at 0 s has drawn the 0.5 s note at 2 s in
\* appearing style, at the view offset 2.25 s.
C22_Witness ==
    /\ Rendered
    /\ frame.direction = "inward"
    /\ score.notes = OneNoteScore.notes
    /\ lastNoteTime = 0
    /\ \E i \in DrawPlaces(frame.ops, "notes", "appearing") :
           frame.ops[i].index = 0 /\ frame.ops[i].at = 2520

---------------------------------------------------------------------------
(* Properties of the score as the renderer holds it *)

\* C23: no step of the renderer changes the note or the percussion array of the
\* score it holds: the score changes only by apply, which installs the score it
\* is given, as given; a refresh and a render leave the score as it is and
\* change, per stream, the three cursors and the last observed time only: the
\* direction and the magnification change in no step that moves a cursor or
\* makes a frame.
C23_ScoreReadOnly ==
    [][/\ score' # score =>
              /\ score' \in FrameScores
              /\ ~lastCall'.made
              /\ ~frame'.called
       /\ (lastCall'.made \/ frame'.called) =>
              /\ score' = score
              /\ DOMAIN noteOffsets' = {"released", "attacked", "appeared"}
              /\ DOMAIN percussionOffsets' = {"released", "attacked", "appeared"}
       /\ (noteDirection' # noteDirection \/ noteMagnification' # noteMagnification) =>
              UNCHANGED <<score, noteOffsets, lastNoteTime, percussionOffsets,
                          lastPercussionTime, lastCall, frame>>]_vars

\* C23 witness: renders have carried the cursors of both streams past events,
\* and the score still holds the two notes and the two hits it was applied with.
C23_Witness ==
    /\ Rendered
    /\ score.notes = <<[time |-> 1120, duration |-> 280], [time |-> 1680, duration |-> 280]>>
    /\ score.percussions = <<[time |-> 1240, duration |-> PercussionDuration],
                             [time |-> 1260, duration |-> PercussionDuration]>>
    /\ noteOffsets = [released |-> 1, attacked |-> 2, appeared |-> 2]
    /\ percussionOffsets.released = 2

---------------------------------------------------------------------------
(* Properties of playback *)

\* The cursors of both streams after a reset and one refresh at the time of the
\* latest refresh, under its lead.
ScannedFromTop ==
    [notes |-> UpdateNoteOffsets(InitialOffsets, 0, score.notes, lastNoteTime,
                                 lastCall.noteAppearingTime).offsets,
     percussions |-> UpdatePercussionOffsets(InitialOffsets, 0, score.percussions,
                                             lastPercussionTime,
                                             percussionAppearingTime).offsets]

\* C24: with the lead and percussionReleasingTime fixed, whatever clock
\* advances, loop-backs and renders came before, the cursors after a refresh
\* equal those of a reset to {0,0,0} followed by one refresh at the same
\* currentTime; also after a loop-back that the renderer did not see as a
\* regression.
C24_HistoryIndependent ==
    lastCall.made =>
        /\ lastCall.noteAppearingTime = NoteAppearingTime(noteDirection, noteMagnification)
        /\ noteOffsets = ScannedFromTop.notes
        /\ percussionOffsets = ScannedFromTop.percussions

\* C24 witness: the clock looped back and advanced past the last observed time
\* between two renders, and the later render found the first note released and
\* the other two sounding.
C24_Witness ==
    /\ lastCall.made
    /\ playback.unseen
    /\ score.notes = SortedExampleNotes
    /\ lastNoteTime = 560
    /\ noteOffsets.released = 1
    /\ noteOffsets.attacked = 3

---------------------------------------------------------------------------
(* Properties of the draws of a frame *)

\* C25 as claimed: in every frame, every percussion event inside its time
\* window, time <= currentTime < time + percussionReleasingTime, gets a
\* sounding-style draw, whatever the length of a measure.
C25_WindowHitsDrawn ==
    Rendered =>
        \A k \in 0 .. Len(score.percussions) - 1 :
            LET hit == score.percussions[k + 1]
            IN  (hit.time <= lastPercussionTime
                    /\ lastPercussionTime < hit.time + percussionReleasingTime)
                => k \in DrawnIndexes(frame.ops, "percussions", "sounding")

\* The places in a frame of the draws of the events of one stream.
StreamDrawPlaces(ops, stream) ==
    {i \in 1 .. Len(ops) : ops[i].op = "draw" /\ ops[i].stream = stream}

\* At most one draw for an event, each for an event of [released, appeared),
\* and so at most appeared - released of them.
DrawnOnceWithin(ops, stream, offsets) ==
    LET places == StreamDrawPlaces(ops, stream)
    IN  /\ \A i, j \in places : ops[i].index = ops[j].index => i = j
        /\ \A i \in places :
               offsets.released <= ops[i].index /\ ops[i].index < offsets.appeared
        /\ Cardinality(places) <= offsets.appeared - offsets.released
        /\ DrawnIndexes(ops, stream, "appearing") \cap DrawnIndexes(ops, stream, "sounding")
               = {}
        /\ \A k \in DrawnIndexes(ops, stream, "appearing") : offsets.attacked <= k
        /\ \A k \in DrawnIndexes(ops, stream, "sounding") : k < offsets.attacked

\* C26: in a frame each event of a stream gets at most one draw, none both an
\* appearing and a sounding one, the appearing draws being of [attacked,
\* appeared) and the sounding draws of [released, attacked), and a stream gets
\* at most appeared - released draws.
C26_OneDrawPerEvent ==
    Rendered =>
        /\ DrawnOnceWithin(frame.ops, "notes", noteOffsets)
        /\ DrawnOnceWithin(frame.ops, "percussions", percussionOffsets)

\* C26 witness: a frame with an appearing and a sounding draw in each stream.
C26_Witness ==
    /\ Rendered
    /\ Cardinality(StreamDrawPlaces(frame.ops, "notes")) = 2
    /\ Cardinality(StreamDrawPlaces(frame.ops, "percussions")) = 2
    /\ DrawnIndexes(frame.ops, "notes", "appearing") = {1}
    /\ DrawnIndexes(frame.ops, "notes", "sounding") = {0}
    /\ DrawnIndexes(frame.ops, "percussions", "appearing") = {1}
    /\ DrawnIndexes(frame.ops, "percussions", "sounding") = {0}

\* C27: a render reads the clock once and gives that one value to both
\* refreshes and to every draw of the frame; so after every apply, reset and
\* render the two last observed times are equal, and a clock value is a
\* regression for both streams or for neither.
C27_OneClockSnapshot ==
    /\ lastNoteTime = lastPercussionTime
    /\ \A t \in FrameClockTimes :
           Regressed(t, lastNoteTime) <=> Regressed(t, lastPercussionTime)
    /\ Rendered =>
           /\ Cardinality(PlacesOfPhase(frame.ops, 0)) = 1
           /\ lastCall.currentTime = lastNoteTime
           /\ frame.ops = Frame(score, noteOffsets, percussionOffsets, lastNoteTime,
                                frame.direction, lastCall.noteAppearingTime)

\* C27 witness: after a render at 3 s a render at 2.25 s, a regression, has reset
\* and refreshed both streams: a note and a hit sound, both times are 2.25 s.
C27_Witness ==
    /\ Rendered
    /\ fresh.tracking
    /\ lastNoteTime = 1260
    /\ lastPercussionTime = 1260
    /\ noteOffsets.attacked = 1
    /\ noteOffsets.released = 0
    /\ percussionOffsets.attacked = 1
    /\ percussionOffsets.released = 0

---------------------------------------------------------------------------
(* Properties of Vocal and the transport *)

\* The parts not disposed.
LiveParts == {i \in 1 .. Len(parts) : ~parts[i].disposed}

\* An apply has completed and no apply call waits at the await.
LatestApplyCompleted ==
    /\ applied # NoVocalScore
    /\ \A k \in 1 .. Len(pending) : pending[k].op # "apply"

\* C28: once the latest apply has completed, every part made by an earlier
\* apply is stopped, cancelled and disposed, the live parts are the started
\* parts of this._tracks, one for each track of the score applied last, and the
\* only event scheduled on the transport is the loop event of that apply, at
\* max(1.0, score.duration).
C28_ApplyReplacesPartsAndLoop ==
    LatestApplyCompleted =>
        /\ Len(vocalTracks) = Len(applied.tracks)
        /\ Cardinality(LiveParts) = Len(applied.tracks)
        /\ LiveParts = {vocalTracks[k].part : k \in 1 .. Len(vocalTracks)}
        /\ \A i \in LiveParts : parts[i].started /\ ~parts[i].stopped /\ ~parts[i].cancelled
        /\ \A i \in 1 .. Len(parts) :
               i \notin LiveParts
                   => parts[i].stopped /\ parts[i].cancelled /\ parts[i].disposed
        /\ Len(timeline) = 1
        /\ timeline[1].time = IF applied.duration < OneSecond THEN OneSecond
                              ELSE applied.duration

\* C28 witness: a score of one track and then a score of two tracks and 0.5 s
\* have been applied: three parts made, the first one disposed.
C28_Witness ==
    /\ LatestApplyCompleted
    /\ pending = <<>>
    /\ Len(parts) = 3
    /\ parts[1].disposed
    /\ LiveParts = {2, 3}
    /\ applied.duration = 280
    /\ timeline = <<[time |-> OneSecond]>>

\* C29, the loop: with a score applied the transport position stays below
\* max(1.0, score.duration), the time at which it is set back to 0, also for a
\* score shorter than 1.0 s.
C29_LoopsAtLoopTime ==
    applied # NoVocalScore =>
        LET loopTime == IF applied.duration < OneSecond THEN OneSecond
                        ELSE applied.duration
        IN  /\ transport.seconds < loopTime
            /\ transport.lastLoop \in {-1, loopTime}

\* C29: playback loops forever.  With a score applied, the transport is set
\* back to 0 whenever it reaches max(1.0, score.duration), and while it stays
\* started its position is 0 again and again.
C29_LoopsForever ==
    /\ []C29_LoopsAtLoopTime
    /\ []<>(applied = NoVocalScore
                \/ transport.state # "started"
                \/ transport.seconds = 0)

\* C29 witness: a score of 0.5 s is playing and has looped back at 1.0 s.
C29_Witness ==
    /\ applied # NoVocalScore
    /\ applied.duration = 280
    /\ transport.state = "started"
    /\ transport.lastLoop = OneSecond
    /\ transport.seconds = 0

\* C30: togglePlaying takes the transport from started to paused and from
\* paused or stopped to started, at the position it is at, and so flips
\* `playing`; returnToTop puts the position at 0 and leaves `playing` as it
\* was: started stays started, paused or stopped becomes stopped.
C30_TransportStateMachine ==
    [][(pending # <<>> /\ pending' = Tail(pending)) =>
          /\ Head(pending).op = "togglePlaying" =>
                /\ transport.state = "started" => transport'.state = "paused"
                /\ transport.state \in {"paused", "stopped"}
                      => transport'.state = "started"
                /\ Playing(transport') # Playing(transport)
                /\ transport'.seconds = transport.seconds
          /\ Head(pending).op = "returnToTop" =>
                /\ transport'.seconds = 0
                /\ Playing(transport') = Playing(transport)
                /\ transport.state = "started" => transport'.state = "started"
                /\ transport.state \in {"paused", "stopped"}
                      => transport'.state = "stopped"]_vocalVars

\* C30 witness: returnToTop has completed on a paused transport, which is now
\* stopped at 0.
C30_Witness ==
    /\ lastDone = [op |-> "returnToTop", state |-> "paused"]
    /\ transport.state = "stopped"
    /\ transport.seconds = 0

\* C31: two togglePlaying calls that waited at the await together each flip
\* `playing` once: after the first has completed `playing` is the opposite of
\* what it was, whatever the transport did while the second still waited, and
\* after the second it is what it was before the two.
C31_TogglesNeitherLostNorDoubled ==
    /\ toggles.phase = "first"
           => /\ Playing(transport) # (toggles.origin = "started")
              /\ pending # <<>>
              /\ Head(pending).op = "togglePlaying"
    /\ toggles.phase = "second"
           => Playing(transport) = (toggles.origin = "started")

\* C31 witness: two togglePlaying calls waited together on a playing transport
\* that had moved on; both have completed, and it plays again.
C31_Witness ==
    /\ toggles = [phase |-> "second", origin |-> "started"]
    /\ lastDone = [op |-> "togglePlaying", state |-> "paused"]
    /\ transport.state = "started"
    /\ transport.seconds > 0

---------------------------------------------------------------------------
(* Properties of the synth pools and the key *)

\* The synths of the entries of this._tracks.
SynthOfTrack(t) == trackSynths[t].synth

\* C32, in a state: the active counts are within the pools, each pool is as
\* long as the most tracks of its kind in a score applied so far, and the
\* tracks of the score applied last have synths of their own, each in the pool
\* of its kind.
C32_PoolsAndBindings ==
    /\ activeNoteSynthCount <= Len(noteSynths)
    /\ activePercussionSynthCount <= Len(percussionSynths)
    /\ Len(noteSynths) = synthHistory.mostNotes
    /\ Len(percussionSynths) = synthHistory.mostPercussions
    /\ Len(trackSynths) = Len(synthHistory.applied)
    /\ \A t \in 1 .. Len(trackSynths) :
           /\ SynthOfTrack(t).pool = IF synthHistory.applied[t] THEN "percussion" ELSE "note"
           /\ SynthOfTrack(t).index >= 0
           /\ SynthOfTrack(t).index < IF synthHistory.applied[t]
                                      THEN Len(percussionSynths) ELSE Len(noteSynths)
    /\ \A t, u \in 1 .. Len(trackSynths) : t # u => SynthOfTrack(t) # SynthOfTrack(u)

\* C32: the synth pools of the Vocal.  After any apply calls the above holds,
\* and no pool ever gets shorter.
C32_SynthPool ==
    /\ []C32_PoolsAndBindings
    /\ [][/\ Len(noteSynths') >= Len(noteSynths)
          /\ Len(percussionSynths') >= Len(percussionSynths)]_synthVars

\* C32 witness: a score of two melodic tracks and then a score of one
\* percussion track have been applied: the note pool keeps its two synths, none
\* of them active.
C32_Witness ==
    /\ synthPending = <<>>
    /\ synthHistory.applied = <<TRUE>>
    /\ synthHistory.mostNotes = 2
    /\ Len(noteSynths) = 2
    /\ activeNoteSynthCount = 0
    /\ activePercussionSynthCount = 1
    /\ trackSynths = <<[synth |-> [pool |-> "percussion", index |-> 0]]>>

\* The detune of a synth.
DetuneOf(synth) == DetuneIn(VocalSynths, synth)

\* C33, in a state: the synth of every entry of this._tracks is detuned by
\* key * 100 cents.
C33_TracksDetunedByKey ==
    \A t \in 1 .. Len(trackSynths) : DetuneOf(SynthOfTrack(t)) = key * 100

\* C33: after any key assignments and apply calls the synth of every track of
\* the current score has detune = key * 100, and an angle is calculated with
\* that same key added to the pitch.
C33_KeyInSynthsAndAngle ==
    /\ []C33_TracksDetunedByKey
    /\ [][theta' # theta =>
              /\ theta'.key = key
              /\ theta'.angle = [pi |-> 2 * (theta'.midi + key - 72) * circleNumerator,
                                 over |-> circleDenominator]
              /\ \A t \in 1 .. Len(trackSynths) :
                     DetuneOf(SynthOfTrack(t)) = theta'.key * 100]_<<angleVars, synthVars>>

\* C33 witness: the third apply, of a score of two melodic tracks, took from
\* the pool a synth that was detuned for another key than 1, the key at that
\* time: it is detuned by 100 cents now, and the angle of pitch 60 has been
\* calculated with key 1.
C33_Witness ==
    /\ synthPending = <<>>
    /\ synthHistory.applies = 3
    /\ synthHistory.reusedStale
    /\ synthHistory.applied = <<FALSE, FALSE>>
    /\ key = 1
    /\ noteSynths = <<[detune |-> 100], [detune |-> 100]>>
    /\ theta.calculated
    /\ theta.midi = 60
    /\ theta.key = 1

---------------------------------------------------------------------------
(* Properties of binarySearch *)

\* The call has returned, and what it returned.
Returned == search.pc = "returned"

Result == search.le

\* The array is sorted ascending by key.
SortedByKey(array) ==
    \A i, j \in 1 .. Len(array) : i <= j => KeyOf(array[i]) <= KeyOf(array[j])

\* The indices whose key is at most the value.
IndicesAtMost(array, value) ==
    {i \in 0 .. Len(array) - 1 : KeyOf(array[i + 1]) <= value}

\* C34: for an array sorted ascending by key, binarySearch returns the largest
\* index whose key is at most the value if there is one, and 0 if every key is
\* greater or the array is empty; for a value before every event of a
\* non-empty array that is the index of the first event.
C34_LargestIndexAtMost ==
    (Returned /\ SortedByKey(search.array)) =>
        LET atMost == IndicesAtMost(search.array, search.value)
        IN  /\ atMost # {} =>
                   /\ Result \in atMost
                   /\ \A i \in atMost : i <= Result
            /\ atMost = {} => Result = 0
            /\ (atMost = {} /\ search.array # <<>>) =>
                   search.array[Result + 1] = Head(search.array)

\* C34 witness: in the four events of ticks 1, 1, 2, 2 the value 1 is found at
\* index 1, the last event of ticks 1.
C34_Witness ==
    /\ Returned
    /\ search.array = <<[ticks |-> 1], [ticks |-> 1], [ticks |-> 2], [ticks |-> 2]>>
    /\ search.value = 1
    /\ Result = 1

\* C34 witness of the other case: every event is after the value 0, and the
\* call returns 0.
C34_WitnessBeforeFirst ==
    /\ Returned
    /\ search.array = <<[ticks |-> 1], [ticks |-> 2]>>
    /\ search.value = 0
    /\ Result = 0

\* C35, in a state: le and gt stay within the array, le below gt unless the
\* array is empty, and what is returned is in 0 .. max(0, array.length - 1).
C35_WithinTheArray ==
    /\ 0 <= search.le
    /\ search.le <= search.gt
    /\ search.gt <= Len(search.array)
    /\ search.array # <<>> => search.le < search.gt
    /\ Returned =>
           /\ Result \in 0 .. Max(0, Len(search.array) - 1)
           /\ search.array # <<>> => Result + 1 \in DOMAIN search.array

\* C35: binarySearch terminates for every array, sorted or not: each iteration
\* makes gt - le smaller and keeps le < gt, so the call returns, and it returns
\* an index of the array if the array has one.
C35_Terminates ==
    /\ []C35_WithinTheArray
    /\ [][(search.pc = "loop" /\ search'.pc = "loop") =>
              /\ search'.gt - search'.le < search.gt - search.le
              /\ search'.le < search'.gt]_searchVars
    /\ <>Returned

\* C35 witness: a call on an unsorted array of four events has returned after
\* two iterations, with index 3.
C35_Witness ==
    /\ Returned
    /\ search.array = <<[ticks |-> 2], [ticks |-> 1], [ticks |-> 2], [ticks |-> 1]>>
    /\ search.value = 2
    /\ Result = 3
    /\ search.gt = 4

---------------------------------------------------------------------------
(* Properties of the Score constructor: the partition of the notes *)

\* The notes of every track of the Midi, counted.
RECURSIVE TotalNotes(_, _)
TotalNotes(m, first) ==
    IF first > Len(m) THEN 0 ELSE Len(m[first].notes) + TotalNotes(m, first + 1)

\* The places of a list of events whose event is of track trackIndex, at a time
\* and with a duration.
PlacesOf(events, trackIndex, time, duration) ==
    {k \in 1 .. Len(events) :
        /\ events[k].trackIndex = trackIndex
        /\ events[k].time = time
        /\ events[k].duration = duration}

\* The places of the notes of a track of the Midi at a time and with a
\* duration, and those at a time with any duration.
PlacesInTrack(track, time, duration) ==
    {k \in 1 .. Len(track.notes) :
        track.notes[k].time = time /\ track.notes[k].duration = duration}

PlacesInTrackAt(track, time) ==
    {k \in 1 .. Len(track.notes) : track.notes[k].time = time}

\* C36, in a state: score.notes holds the notes of the tracks that are not
\* percussion tracks and score.percussions those of the percussion tracks, each
\* note as many times as its track holds it, with the index of its track and,
\* in score.percussions, with duration 0.1; nothing else is in either, and
\* the two lengths add up to the number of notes of the Midi.
C36_NotesPartitioned ==
    built.constructed =>
        /\ Len(built.notes) + Len(built.percussions) = TotalNotes(midi, 1)
        /\ \A k \in 1 .. Len(built.notes) :
               /\ built.notes[k].trackIndex + 1 \in DOMAIN midi
               /\ ~midi[built.notes[k].trackIndex + 1].percussion
        /\ \A k \in 1 .. Len(built.percussions) :
               /\ built.percussions[k].trackIndex + 1 \in DOMAIN midi
               /\ midi[built.percussions[k].trackIndex + 1].percussion
        /\ \A i \in DOMAIN midi : \A note \in MidiNotes :
               IF midi[i].percussion
               THEN Cardinality(PlacesOf(built.percussions, i - 1, note.time,
                                         PercussionDuration))
                        = Cardinality(PlacesInTrackAt(midi[i], note.time))
               ELSE Cardinality(PlacesOf(built.notes, i - 1, note.time, note.duration))
                        = Cardinality(PlacesInTrack(midi[i], note.time, note.duration))

\* C36: the constructor partitions the notes of the Midi into score.notes and
\* score.percussions, and leaves the Midi's notes as they were.
C36_PartitionOfCopies ==
    /\ []C36_NotesPartitioned
    /\ [][midi' = midi]_scoreVars

\* C36 witness: a percussion track that holds the same note twice and a track
\* of one note: two percussions of 0.1 s of track 0 and one note of track 1,
\* the notes of the Midi still 0.5 s long.
C36_Witness ==
    /\ built.constructed
    /\ Len(midi) = 2
    /\ midi[1].percussion
    /\ ~midi[2].percussion
    /\ midi[1].notes = <<[time |-> 0, duration |-> 280], [time |-> 0, duration |-> 280]>>
    /\ midi[2].notes = <<[time |-> 560, duration |-> 280]>>
    /\ built.percussions = <<[trackIndex |-> 0, time |-> 0, duration |-> PercussionDuration],
                             [trackIndex |-> 0, time |-> 0, duration |-> PercussionDuration]>>
    /\ built.notes = <<[trackIndex |-> 1, time |-> 560, duration |-> 280]>>

---------------------------------------------------------------------------
(* Properties of the button group *)

\* The value the group has before any click: its own in the document, or that
\* of its first button.
InitialGroupValue ==
    IF buttonHistory.original # Undefined THEN buttonHistory.original
    ELSE IF buttons # <<>> THEN buttons[1].value
    ELSE Undefined

\* The button clicked last, if any.
ClickedButton == buttons[buttonHistory.clicked]

\* A button carries 'selected' if and only if its data value is that of the
\* group.
SelectedIffValueOfGroup ==
    \A i \in 1 .. Len(buttons) : buttons[i].selected <=> (buttons[i].value = groupValue)

\* The listener has been called once by initButtonGroup and once for each
\* click.
ListenerCalledOncePerEvent == listener.calls = 1 + buttonHistory.clicks

\* C37: after initButtonGroup and any clicks on the buttons, a button carries
\* 'selected' if and only if its data value is that of the group, the value of
\* the group is that of the button clicked last, or the initial one if none was
\* clicked, and the listener has been called once at initialisation and once
\* for each click, the latest time with the value the group has.
C37_ButtonGroup ==
    buttonHistory.initialised =>
        /\ SelectedIffValueOfGroup
        /\ groupValue = IF buttonHistory.clicked = 0 THEN InitialGroupValue
                        ELSE ClickedButton.value
        /\ ListenerCalledOncePerEvent
        /\ listener.latest = groupValue

\* What holds of every click: the selection and the number of calls are as in
\* C37; the value of the group is the string of the data value of the element
\* the click was dispatched at, and the listener got that data value itself.
ButtonGroupOfTarget ==
    buttonHistory.initialised =>
        /\ SelectedIffValueOfGroup
        /\ ListenerCalledOncePerEvent
        /\ buttonHistory.clicked # 0 => groupValue = ToDataValue(listener.latest)
        /\ (buttonHistory.clicked # 0 /\ ~buttonHistory.atInner) =>
               /\ groupValue = ClickedButton.value
               /\ listener.latest = groupValue
        /\ buttonHistory.clicked = 0 =>
               /\ groupValue = InitialGroupValue
               /\ listener.latest = groupValue
        /\ buttonHistory.atInner =>
               /\ groupValue = Str("undefined")
               /\ listener.latest = Undefined
               /\ \A i \in 1 .. Len(buttons) : ~buttons[i].selected

\* A click on the second button has landed on the element inside it.
ClickedInside ==
    /\ buttonHistory.initialised
    /\ buttonHistory.clicked = 2
    /\ buttonHistory.atInner
    /\ listener.calls = 2

---------------------------------------------------------------------------
(* Properties of initShaderProgram *)

\* initShaderProgram has been called, with the context obtained, and has
\* returned null.
ShaderProgramNull == renderer = "thrown" /\ browser.context

\* C38: whenever initShaderProgram has returned null, after a vertex compile
\* failure, a fragment compile failure or a link failure, no shader object made
\* in that call is left undeleted.
C38_ShadersDeletedOnNull ==
    ShaderProgramNull =>
        /\ glState.vShader \in {"none", "deleted"}
        /\ glState.fShader \in {"none", "deleted"}

\* What holds instead: only after a fragment compile failure a shader is left,
\* the vertex shader; the shader that did not compile is always deleted.
ShadersDeletedButVertexOnFragmentFailure ==
    ShaderProgramNull =>
        /\ glState.fShader \in {"none", "deleted"}
        /\ glState.vShader = "live" <=> (browser.vertex /\ ~browser.fragment)

\* The fragment shader has not compiled, and the vertex shader is left.
VertexShaderLeft ==
    /\ ShaderProgramNull
    /\ browser.vertex
    /\ ~browser.fragment
    /\ glState.vShader = "live"
    /\ glState.fShader = "deleted"

====
